---- MODULE Spec2Model ----
(***************************************************************************)
(* A model of the data-quality checkers of dvd_data_checker: the missing-   *)
(* value checker, the duplicate checker and the date-gap finder, each with  *)
(* its table-level and schema-level entry points and run_analysis.          *)
(*                                                                          *)
(* The database is the state the checkers read.  A table is described by    *)
(* the answers PostgreSQL gives to the queries a checker issues (row count, *)
(* NULL count per column, the rows behind the GROUP BY queries, the values  *)
(* of a date column) and by which of those queries fail.                    *)
(*                                                                          *)
(* Numbers: a percentage that the code keeps as a float is kept exact, as   *)
(* the fraction [num, den]; a percentage rounded with round(x, 2) is kept   *)
(* as an integer number of hundredths (1000 is 10.0).  A date or timestamp  *)
(* is an integer number of minutes; a number of days that the code keeps as *)
(* a float is the fraction [num, den] of days.                              *)
(***************************************************************************)
EXTENDS Integers, Sequences, FiniteSets, TLC

VARIABLES
    checker,          \* the checker object the caller built
    db,               \* the database: schema name -> its tables
    pc,               \* where the caller is: "idle", "for schema", "for table", "done"
    call,             \* the entry point called and its arguments
    report,           \* the value a table-level or column-level call returned
    schemas,          \* run_analysis: the list of schemas it was called with
    results,          \* run_analysis: the list of schema results so far
    tables,           \* schema scan: the enumerated tables still to analyse
    schema_analysis,  \* schema scan: the result being built
    queries           \* the queries the last table-level or column-level call issued

vars == <<checker, db, pc, call, report, schemas, results, tables, schema_analysis, queries>>

\* an entry of the query log: the kind of query and what it ran on
Query(kind, on) == [query |-> kind, on |-> on]

\* an optional argument: left to its default (None), or given
NoArgument == [given |-> FALSE]
Argument(x) == [given |-> TRUE, value |-> x]

(***************************************************************************)
(* Bounds of the model.                                                     *)
(***************************************************************************)
MaxRows == 20        \* small tables: every row count and NULL count up to this
BigTableRows == 100  \* the row count of the one large table
MaxCols == 2         \* columns of a table of the missing-value checker
MaxMult == 2         \* copies of one row value in a table of the duplicate checker
MaxUnique == 38      \* rows of such a table that share no value with another row
MaxDay == 6          \* the last day a date column may hold a value on
MaxDateCols == 2     \* date columns of a table of the date-gap finder
MaxTables == 3       \* tables of the schema public
MaxGaps == 11        \* gap counts given to the gap severity function
MaxGapDays == 31     \* gap-days given to it, in steps of one hour

(***************************************************************************)
(* Helpers on sequences.                                                    *)
(***************************************************************************)
Range(s) == {s[i] : i \in 1..Len(s)}

Min(a, b) == IF a <= b THEN a ELSE b
SetMin(S) == CHOOSE x \in S : \A y \in S : x <= y
SetMax(S) == CHOOSE x \in S : \A y \in S : x >= y

(***************************************************************************)
(* Exact arithmetic for the code's floats.                                  *)
(***************************************************************************)
\* an empty table counted as wholly affected
Mutant_percentage_of_empty_table(x, y) ==
    IF y > 0 THEN [num |-> 100 * x, den |-> y] ELSE [num |-> 100, den |-> 1]

\* x / y * 100 if y > 0 else 0, as an exact fraction
Percentage(x, y) == IF y > 0 THEN [num |-> 100 * x, den |-> y] ELSE [num |-> 0, den |-> 1]

\* p >= k for a fraction p and an integer k
AtLeast(p, k) == p.num >= k * p.den

\* round(p, 2) in hundredths: to the nearest hundredth, an exact tie to the even one
Round2(p) ==
    LET scaled == 100 * p.num
        fl == scaled \div p.den
        twice == 2 * (scaled % p.den)
    IN  IF twice > p.den THEN fl + 1
        ELSE IF twice < p.den THEN fl
        ELSE IF fl % 2 = 0 THEN fl ELSE fl + 1

(***************************************************************************)
(* SchemaReader: the metadata the checkers read.                            *)
(***************************************************************************)
TableNamed(table_name, schema) ==
    IF schema \in DOMAIN db
    THEN {t \in Range(db[schema].tables) : t.table_name = table_name}
    ELSE {}

\* SchemaReader.get_table_structure: raises when the table is not found or a
\* metadata query fails
get_table_structure(table_name, schema) ==
    LET found == TableNamed(table_name, schema)
    IN  IF found = {}
        THEN [raised |-> TRUE, error |-> <<"Table not found", schema, table_name>>]
        ELSE LET t == CHOOSE x \in found : TRUE
             IN  IF t.structure_fails
                 THEN [raised |-> TRUE, error |-> <<"metadata query failed", schema, table_name>>]
                 ELSE [raised |-> FALSE,
                       table_name |-> table_name,
                       schema |-> schema,
                       row_count |-> t.row_count,
                       columns |-> t.columns,
                       primary_keys |-> t.primary_keys]

(***************************************************************************)
(* MissingValueChecker                                                      *)
(***************************************************************************)
\* the medium threshold taken as exclusive
Mutant_missing_severity_exclusive(missing_percentage) ==
    IF AtLeast(missing_percentage, 50) THEN "critical"
    ELSE IF AtLeast(missing_percentage, 20) THEN "high"
    ELSE IF missing_percentage.num > 5 * missing_percentage.den THEN "medium"
    ELSE "low"

MissingValueChecker_calculate_severity(missing_percentage) ==
    IF AtLeast(missing_percentage, 50) THEN "critical"
    ELSE IF AtLeast(missing_percentage, 20) THEN "high"
    ELSE IF AtLeast(missing_percentage, 5) THEN "medium"
    ELSE "low"

\* the answer to SELECT COUNT(*) ... WHERE column IS NULL
null_count_query(column) ==
    IF column.query_fails
    THEN [raised |-> TRUE, error |-> <<"query failed", column.column_name>>]
    ELSE [raised |-> FALSE, value |-> column.null_count]

\* one flagged column's entry of missing_details
column_detail(column, null_count, total_rows) ==
    LET missing_percentage == Percentage(null_count, total_rows)
    IN  [column_name |-> column.column_name,
         data_type |-> column.data_type,
         null_count |-> null_count,
         missing_percentage |-> Round2(missing_percentage),
         is_nullable |-> FALSE,
         severity |-> MissingValueChecker_calculate_severity(missing_percentage)]

\* the loop flagging a required column whatever its NULL count
RECURSIVE Mutant_missing_details_loop_flags_zero(_, _, _)
Mutant_missing_details_loop_flags_zero(columns, total_rows, acc) ==
    IF columns = <<>> THEN [raised |-> FALSE, acc |-> acc]
    ELSE LET column == Head(columns)
         IN  IF column.is_nullable = "YES"
             THEN Mutant_missing_details_loop_flags_zero(Tail(columns), total_rows, acc)
             ELSE LET q == null_count_query(column)
                  IN  IF q.raised THEN q
                      ELSE Mutant_missing_details_loop_flags_zero(Tail(columns), total_rows,
                               [columns_with_missing |-> acc.columns_with_missing + 1,
                                missing_details |-> Append(acc.missing_details,
                                    column_detail(column, q.value, total_rows))])

\* the loop over the columns (lines 52-81): the counter and the details collected,
\* or the exception a NULL-count query raised
RECURSIVE missing_details_loop(_, _, _)
missing_details_loop(columns, total_rows, acc) ==
    IF columns = <<>> THEN [raised |-> FALSE, acc |-> acc]
    ELSE LET column == Head(columns)
         IN  IF column.is_nullable = "YES"
             THEN missing_details_loop(Tail(columns), total_rows, acc)
             ELSE LET q == null_count_query(column)
                  IN  IF q.raised THEN q
                      ELSE IF q.value > 0
                      THEN missing_details_loop(Tail(columns), total_rows,
                               [columns_with_missing |-> acc.columns_with_missing + 1,
                                missing_details |-> Append(acc.missing_details,
                                    column_detail(column, q.value, total_rows))])
                      ELSE missing_details_loop(Tail(columns), total_rows, acc)

\* the chain with its high and medium branches in the wrong order
Mutant_overall_severity_medium_first(severities) ==
    IF "critical" \in Range(severities) THEN "critical"
    ELSE IF "medium" \in Range(severities) THEN "medium"
    ELSE IF "high" \in Range(severities) THEN "high"
    ELSE "low"

\* "Determine overall severity": the if/elif chain over the column severities
missing_overall_severity(severities) ==
    IF "critical" \in Range(severities) THEN "critical"
    ELSE IF "high" \in Range(severities) THEN "high"
    ELSE IF "medium" \in Range(severities) THEN "medium"
    ELSE "low"

\* the error entry keeping the counts of a report
Mutant_error_report_with_counts(table_name, schema, error) ==
    [table_name |-> table_name, schema |-> schema, error |-> error, severity |-> "error",
     columns_with_missing |-> 0, missing_details |-> <<>>]

\* the dictionary returned by the except clause of a table-level check
error_report(table_name, schema, error) ==
    [table_name |-> table_name, schema |-> schema, error |-> error, severity |-> "error"]

check_table_missing_values(table_name, schema) ==
    LET table_structure == get_table_structure(table_name, schema)
    IN  IF table_structure.raised
        THEN error_report(table_name, schema, table_structure.error)
        ELSE LET loop == missing_details_loop(table_structure.columns,
                          table_structure.row_count,
                          [columns_with_missing |-> 0, missing_details |-> <<>>])
             IN  IF loop.raised
                 THEN error_report(table_name, schema, loop.error)
                 ELSE [table_name |-> table_name,
                       schema |-> schema,
                       total_rows |-> table_structure.row_count,
                       columns_analyzed |-> Len(table_structure.columns),
                       columns_with_missing |-> loop.acc.columns_with_missing,
                       missing_details |-> loop.acc.missing_details,
                       severity |-> missing_overall_severity(
                           [i \in 1..Len(loop.acc.missing_details) |->
                               loop.acc.missing_details[i].severity])]

\* the NULL-count queries the loop over the columns issues: none for a nullable
\* column, one for each required column up to and including the first that raises
RECURSIVE null_count_queries(_)
null_count_queries(columns) ==
    IF columns = <<>> THEN <<>>
    ELSE LET column == Head(columns)
         IN  IF column.is_nullable = "YES" THEN null_count_queries(Tail(columns))
             ELSE IF null_count_query(column).raised
             THEN <<Query("null_count", column.column_name)>>
             ELSE <<Query("null_count", column.column_name)>>
                      \o null_count_queries(Tail(columns))

\* the queries check_table_missing_values issues, in order
check_table_missing_values_queries(table_name, schema) ==
    <<Query("table_structure", table_name)>>
        \o (IF get_table_structure(table_name, schema).raised THEN <<>>
            ELSE null_count_queries(get_table_structure(table_name, schema).columns))

(***************************************************************************)
(* DuplicateChecker                                                         *)
(*                                                                          *)
(* The rows of a table: rows[r] is how many rows hold the values r, and     *)
(* unique_rows counts further rows that share no value with any other row,  *)
(* so that each of them is a group of one under every GROUP BY.             *)
(***************************************************************************)
RECURSIVE SumOver(_, _)
\* the sum of f[x] over the finite set S
SumOver(S, f) ==
    IF S = {} THEN 0
    ELSE LET x == CHOOSE y \in S : TRUE IN f[x] + SumOver(S \ {x}, f)

Project(row, columns) == [c \in Range(columns) |-> row[c]]

ColumnNames(t) == {t.columns[i].column_name : i \in 1..Len(t.columns)}

\* the query grouped by every column of the table instead of the given ones
Mutant_group_by_rows(t, columns) ==
    LET present == {r \in DOMAIN t.rows : t.rows[r] > 1}
    IN  {[key |-> r, duplicate_count |-> t.rows[r]] : r \in present}

\* SELECT columns, COUNT(*) AS duplicate_count FROM t GROUP BY columns HAVING COUNT(*) > 1:
\* the set of result rows (the order among them is PostgreSQL's choice)
group_by_having(t, columns) ==
    LET present == {r \in DOMAIN t.rows : t.rows[r] > 0}
        keys == {Project(r, columns) : r \in present}
        count(k) == SumOver({r \in present : Project(r, columns) = k}, t.rows)
    IN  {[key |-> k, duplicate_count |-> count(k)] : k \in {x \in keys : count(x) > 1}}

\* execute_query_dict on a GROUP BY query: its rows, or the exception raised
duplicate_query(table_name, schema, columns, kind) ==
    LET found == TableNamed(table_name, schema)
    IN  IF found = {}
        THEN [raised |-> TRUE, error |-> <<"relation does not exist", schema, table_name>>]
        ELSE LET t == CHOOSE x \in found : TRUE
             IN  IF kind \in t.fails
                 THEN [raised |-> TRUE, error |-> <<"query failed", kind>>]
                 ELSE IF columns = <<>> \/ ~(Range(columns) \subseteq ColumnNames(t))
                 THEN [raised |-> TRUE, error |-> <<"syntax error or undefined column", kind>>]
                 ELSE [raised |-> FALSE, value |-> group_by_having(t, columns)]

\* DatabaseConnector.get_table_row_count
get_table_row_count(table_name, schema) ==
    LET found == TableNamed(table_name, schema)
    IN  IF found = {}
        THEN [raised |-> TRUE, error |-> <<"relation does not exist", schema, table_name>>]
        ELSE LET t == CHOOSE x \in found : TRUE
             IN  IF "row_count" \in t.fails
                 THEN [raised |-> TRUE, error |-> <<"query failed", "row_count">>]
                 ELSE [raised |-> FALSE, value |-> t.row_count]

\* the sum counting only the rows beyond the first of each group
Mutant_sum_duplicate_count_extra_rows(duplicates) ==
    SumOver(duplicates, [g \in duplicates |-> g.duplicate_count - 1])

\* sum(row['duplicate_count'] for row in duplicates)
sum_duplicate_count(duplicates) ==
    SumOver(duplicates, [g \in duplicates |-> g.duplicate_count])

\* the thresholds of the missing-value checker used for duplicates
Mutant_duplicate_severity_thresholds(duplicate_percentage) ==
    IF AtLeast(duplicate_percentage, 50) THEN "critical"
    ELSE IF AtLeast(duplicate_percentage, 20) THEN "high"
    ELSE IF AtLeast(duplicate_percentage, 5) THEN "medium"
    ELSE "low"

DuplicateChecker_calculate_severity(duplicate_percentage) ==
    IF AtLeast(duplicate_percentage, 30) THEN "critical"
    ELSE IF AtLeast(duplicate_percentage, 15) THEN "high"
    ELSE IF AtLeast(duplicate_percentage, 5) THEN "medium"
    ELSE "low"

check_table_duplicates(table_name, schema, columns) ==
    LET table_structure == get_table_structure(table_name, schema)
    IN  IF table_structure.raised
        THEN error_report(table_name, schema, table_structure.error)
        ELSE
        LET cols == IF ~columns.given
                    THEN [i \in 1..Len(table_structure.columns) |->
                              table_structure.columns[i].column_name]
                    ELSE columns.value
            q == duplicate_query(table_name, schema, cols, "general")
        IN  IF q.raised
            THEN error_report(table_name, schema, q.error)
            ELSE
            LET duplicates == q.value
                total_duplicate_rows == sum_duplicate_count(duplicates)
                total_duplicate_groups == Cardinality(duplicates)
                total_rows == table_structure.row_count
                duplicate_percentage == Percentage(total_duplicate_rows, total_rows)
            IN  [table_name |-> table_name,
                 schema |-> schema,
                 columns_checked |-> cols,
                 total_rows |-> total_rows,
                 total_duplicate_groups |-> total_duplicate_groups,
                 total_duplicate_rows |-> total_duplicate_rows,
                 duplicate_percentage |-> Round2(duplicate_percentage),
                 severity |-> DuplicateChecker_calculate_severity(duplicate_percentage),
                 duplicate_details |-> duplicates]

\* a table without primary key reported like one without duplicate
Mutant_pk_check_low_without_key(table_name, schema) ==
    LET table_structure == get_table_structure(table_name, schema)
    IN  IF table_structure.raised
        THEN error_report(table_name, schema, table_structure.error)
        ELSE
        LET primary_keys == table_structure.primary_keys
            q == duplicate_query(table_name, schema, primary_keys, "primary_key")
        IN  IF primary_keys # <<>> /\ q.raised
            THEN error_report(table_name, schema, q.error)
            ELSE [table_name |-> table_name,
                  schema |-> schema,
                  primary_keys |-> primary_keys,
                  has_primary_key |-> primary_keys # <<>>,
                  duplicate_count |-> IF primary_keys = <<>> THEN 0 ELSE Cardinality(q.value),
                  severity |-> IF primary_keys # <<>> /\ q.value # {}
                               THEN "critical" ELSE "low"]

check_primary_key_duplicates(table_name, schema) ==
    LET table_structure == get_table_structure(table_name, schema)
    IN  IF table_structure.raised
        THEN error_report(table_name, schema, table_structure.error)
        ELSE
        LET primary_keys == table_structure.primary_keys
        IN  IF primary_keys = <<>>
            THEN [table_name |-> table_name,
                  schema |-> schema,
                  primary_keys |-> <<>>,
                  has_primary_key |-> FALSE,
                  duplicate_count |-> 0,
                  severity |-> "info"]
            ELSE
            LET q == duplicate_query(table_name, schema, primary_keys, "primary_key")
            IN  IF q.raised
                THEN error_report(table_name, schema, q.error)
                ELSE [table_name |-> table_name,
                      schema |-> schema,
                      primary_keys |-> primary_keys,
                      has_primary_key |-> TRUE,
                      duplicate_count |-> Cardinality(q.value),
                      duplicate_details |-> q.value,
                      severity |-> IF q.value # {} THEN "critical" ELSE "low"]

\* the default business keys of check_business_key_duplicates
DefaultBusinessKeys ==
    [n \in {"customer", "film", "rental", "payment"} |->
        CASE n = "customer" -> <<"email", "first_name", "last_name">>
          [] n = "film" -> <<"title", "release_year">>
          [] n = "rental" -> <<"customer_id", "inventory_id", "rental_date">>
          [] n = "payment" -> <<"customer_id", "rental_id", "amount", "payment_date">>]

check_business_key_duplicates(table_name, schema, business_keys) ==
    LET keys == IF ~business_keys.given THEN DefaultBusinessKeys ELSE business_keys.value
        table_business_keys == IF table_name \in DOMAIN keys THEN keys[table_name] ELSE <<>>
    IN  IF table_business_keys = <<>>
        THEN [table_name |-> table_name,
              schema |-> schema,
              business_keys_checked |-> <<>>,
              has_business_keys |-> FALSE,
              severity |-> "info"]
        ELSE
        LET q == duplicate_query(table_name, schema, table_business_keys, "business_key")
        IN  IF q.raised
            THEN error_report(table_name, schema, q.error)
            ELSE
            LET bk_duplicates == q.value
                total_duplicates == sum_duplicate_count(bk_duplicates)
                rc == get_table_row_count(table_name, schema)
            IN  IF rc.raised
                THEN error_report(table_name, schema, rc.error)
                ELSE
                LET total_rows == rc.value
                    duplicate_percentage == Percentage(total_duplicates, total_rows)
                IN  [table_name |-> table_name,
                     schema |-> schema,
                     business_keys_checked |-> table_business_keys,
                     has_business_keys |-> TRUE,
                     total_duplicate_groups |-> Cardinality(bk_duplicates),
                     total_duplicate_rows |-> total_duplicates,
                     duplicate_percentage |-> Round2(duplicate_percentage),
                     duplicate_details |-> bk_duplicates,
                     severity |-> DuplicateChecker_calculate_severity(duplicate_percentage)]

\* the queries check_table_duplicates issues, in order
check_table_duplicates_queries(table_name, schema, columns) ==
    <<Query("table_structure", table_name)>>
        \o (IF get_table_structure(table_name, schema).raised THEN <<>>
            ELSE <<Query("group_by", "general")>>)

\* the queries check_primary_key_duplicates issues, in order
check_primary_key_duplicates_queries(table_name, schema) ==
    <<Query("table_structure", table_name)>>
        \o (IF get_table_structure(table_name, schema).raised THEN <<>>
            ELSE IF get_table_structure(table_name, schema).primary_keys = <<>> THEN <<>>
            ELSE <<Query("group_by", "primary_key")>>)

\* the queries check_business_key_duplicates issues, in order
check_business_key_duplicates_queries(table_name, schema, business_keys) ==
    LET keys == IF ~business_keys.given THEN DefaultBusinessKeys ELSE business_keys.value
    IN  IF table_name \notin DOMAIN keys THEN <<>>
        ELSE IF keys[table_name] = <<>> THEN <<>>
        ELSE <<Query("group_by", "business_key")>>
                 \o (IF duplicate_query(table_name, schema, keys[table_name],
                                        "business_key").raised
                     THEN <<>>
                     ELSE <<Query("row_count", table_name)>>)

(***************************************************************************)
(* DateGapFinder                                                            *)
(*                                                                          *)
(* A date column holds the set of its non-NULL values, one row per value,   *)
(* each a number of minutes since a midnight that starts a week and a       *)
(* month.  Months are taken as 30 days long.                                *)
(***************************************************************************)
MinutesPerHour == 60
MinutesPerDay == 1440
MinutesPerWeek == 10080
MinutesPerMonth == 43200

\* INTERVAL '1 day' / '1 hour' / '1 week' / '1 month' of the four queries
Step(interval) ==
    CASE interval = "daily" -> MinutesPerDay
      [] interval = "hourly" -> MinutesPerHour
      [] interval = "weekly" -> MinutesPerWeek
      [] OTHER -> MinutesPerMonth

\* DATE(v), DATE_TRUNC('hour', v), DATE_TRUNC('week', v), DATE_TRUNC('month', v)
Bucket(interval, v) == (v \div Step(interval)) * Step(interval)

\* PostgreSQL's generate_series(start, stop, step)
generate_series(start, stop, step) ==
    IF stop < start THEN {} ELSE {start + k * step : k \in 0..((stop - start) \div step)}

\* the series generated from the first to the last bucket that holds a row
Mutant_expected_series_min_to_max(values, interval) ==
    IF values = {} THEN {}
    ELSE generate_series(Bucket(interval, SetMin(values)), Bucket(interval, SetMax(values)),
                         Step(interval))

\* the CTE date_series / hour_series / week_series / month_series: one
\* generate_series(b, b, step) per group b of the GROUP BY
expected_series(values, interval) ==
    UNION {generate_series(Bucket(interval, v), Bucket(interval, v), Step(interval)) : v \in values}

\* the CTE actual_dates / actual_hours / actual_weeks / actual_months
actual_series(values, interval) == {Bucket(interval, v) : v \in values}

\* the rows of the gap query: expected LEFT JOIN actual WHERE actual IS NULL
gap_query_rows(values, interval) ==
    expected_series(values, interval) \ actual_series(values, interval)

\* a finite set of integers as the ascending sequence (ORDER BY expected)
RECURSIVE Ascending(_)
Ascending(S) ==
    IF S = {} THEN <<>>
    ELSE LET m == CHOOSE x \in S : \A y \in S : x <= y IN <<m>> \o Ascending(S \ {m})

\* one entry of the gaps list; the daily query returns gap_days as an interval,
\* which psycopg2 hands over as a timedelta, the other queries a number
gap_entry(start, interval) ==
    IF interval = "hourly"
    THEN [start_date |-> start, end_date |-> start + Step(interval),
          gap_days |-> [num |-> 1, den |-> 24], gap_hours |-> 1]
    ELSE IF interval = "daily"
    THEN [start_date |-> start, end_date |-> start + Step(interval),
          gap_days |-> [timedelta |-> MinutesPerDay]]
    ELSE [start_date |-> start, end_date |-> start + Step(interval),
          gap_days |-> [num |-> Step(interval) \div MinutesPerDay, den |-> 1]]

\* a failure of the gap query is logged as a warning and the list stays empty
_find_gaps_for_interval(column, interval) ==
    IF column.gap_query_fails THEN <<>>
    ELSE LET starts == Ascending(gap_query_rows(column.values, interval))
         IN  [i \in 1..Len(starts) |-> gap_entry(starts[i], interval)]

\* sum(gap['gap_days'] for gap in gaps): 0 + timedelta raises TypeError
RECURSIVE sum_gap_days(_)
sum_gap_days(gaps) ==
    IF gaps = <<>> THEN [raised |-> FALSE, value |-> [num |-> 0, den |-> 24]]
    ELSE IF "timedelta" \in DOMAIN Head(gaps).gap_days
    THEN [raised |-> TRUE, error |-> <<"unsupported operand type(s) for +", "int", "timedelta">>]
    ELSE LET rest == sum_gap_days(Tail(gaps))
             g == Head(gaps).gap_days
         IN  IF rest.raised THEN rest
             ELSE [raised |-> FALSE,
                   value |-> [num |-> g.num * (24 \div g.den) + rest.value.num, den |-> 24]]

\* the two scales combined with "and": the better of the two
Mutant_gap_severity_both_scales(total_gaps, total_gap_days) ==
    IF total_gaps >= 10 /\ AtLeast(total_gap_days, 30) THEN "critical"
    ELSE IF total_gaps >= 5 /\ AtLeast(total_gap_days, 7) THEN "high"
    ELSE IF total_gaps >= 2 /\ AtLeast(total_gap_days, 3) THEN "medium"
    ELSE "low"

_calculate_gap_severity(total_gaps, total_gap_days) ==
    IF total_gaps >= 10 \/ AtLeast(total_gap_days, 30) THEN "critical"
    ELSE IF total_gaps >= 5 \/ AtLeast(total_gap_days, 7) THEN "high"
    ELSE IF total_gaps >= 2 \/ AtLeast(total_gap_days, 3) THEN "medium"
    ELSE "low"

column_error_report(table_name, schema, date_column, error) ==
    [table_name |-> table_name, schema |-> schema, date_column |-> date_column,
     error |-> error, severity |-> "error"]

\* SchemaReader.get_date_columns: the date/timestamp columns of the table, an
\* empty list for a table that does not exist
get_date_columns(table_name, schema) ==
    LET found == TableNamed(table_name, schema)
    IN  IF found = {} THEN [raised |-> FALSE, value |-> <<>>]
        ELSE LET t == CHOOSE x \in found : TRUE
             IN  IF "date_columns" \in t.fails
                 THEN [raised |-> TRUE, error |-> <<"metadata query failed", schema, table_name>>]
                 ELSE [raised |-> FALSE, value |-> t.date_columns]

\* the column the queries of find_gaps_in_date_column run against
DateColumnNamed(table_name, schema, date_column) ==
    UNION {{c \in Range(t.date_columns) : c.column_name = date_column} :
               t \in TableNamed(table_name, schema)}

\* the parameter's default taken as 'hourly'
Mutant_default_interval_hourly(expected_interval) ==
    IF expected_interval.given THEN expected_interval.value ELSE "hourly"

\* the parameter expected_interval: str = 'daily' of find_gaps_in_date_column
DefaultExpectedInterval(expected_interval) ==
    IF expected_interval.given THEN expected_interval.value ELSE "daily"

find_gaps_in_date_column(table_name, date_column, schema, expected_interval) ==
    LET found == DateColumnNamed(table_name, schema, date_column)
    IN  IF found = {}
        THEN column_error_report(table_name, schema, date_column,
                 <<"relation or column does not exist", schema, table_name, date_column>>)
        ELSE
        LET column == CHOOSE c \in found : TRUE
        IN  IF column.range_query_fails
            THEN column_error_report(table_name, schema, date_column,
                     <<"query failed", date_column>>)
            ELSE IF column.values = {}
            THEN column_error_report(table_name, schema, date_column,
                     <<"No valid dates found in column">>)
            ELSE
            LET min_date == SetMin(column.values)
                max_date == SetMax(column.values)
                total_records == Cardinality(column.values)
                gaps == _find_gaps_for_interval(column, expected_interval)
                total_gaps == Len(gaps)
                total_gap_days == sum_gap_days(gaps)
            IN  IF total_gap_days.raised
                THEN column_error_report(table_name, schema, date_column, total_gap_days.error)
                ELSE [table_name |-> table_name,
                      schema |-> schema,
                      date_column |-> date_column,
                      expected_interval |-> expected_interval,
                      date_range |-> [min_date |-> min_date,
                                      max_date |-> max_date,
                                      total_days |-> (max_date - min_date) \div MinutesPerDay],
                      total_records |-> total_records,
                      total_gaps |-> total_gaps,
                      total_gap_days |-> total_gap_days.value,
                      gaps |-> gaps,
                      severity |-> _calculate_gap_severity(total_gaps, total_gap_days.value)]

\* a string as the sequence of its characters, for the strings of the model
Spelling(text) ==
    CASE text = "rental_date" -> <<"r", "e", "n", "t", "a", "l", "_", "d", "a", "t", "e">>
      [] text = "last_update" -> <<"l", "a", "s", "t", "_", "u", "p", "d", "a", "t", "e">>
      [] text = "week_start" -> <<"w", "e", "e", "k", "_", "s", "t", "a", "r", "t">>
      [] text = "billing_month" ->
             <<"b", "i", "l", "l", "i", "n",
               "g", "_", "m", "o", "n", "t", "h">>
      [] text = "pickup_hour" -> <<"p", "i", "c", "k", "u", "p", "_", "h", "o", "u", "r">>
      [] text = "HOUR_OF_WEEK" -> <<"H", "O", "U", "R", "_", "O", "F", "_", "W", "E", "E", "K">>
      [] text = "Month_Of_Week" ->
             <<"M", "o", "n", "t", "h", "_",
               "O", "f", "_", "W", "e", "e", "k">>
      [] text = "Billing_Month" ->
             <<"B", "i", "l", "l", "i", "n",
               "g", "_", "M", "o", "n", "t", "h">>
      [] text = "hour" -> <<"h", "o", "u", "r">>
      [] text = "week" -> <<"w", "e", "e", "k">>
      [] text = "month" -> <<"m", "o", "n", "t", "h">>

UpperCase ==
    <<"A", "B", "C", "D", "E", "F", "G", "H", "I", "J", "K", "L", "M",
      "N", "O", "P", "Q", "R", "S", "T", "U", "V", "W", "X", "Y", "Z">>

LowerCase ==
    <<"a", "b", "c", "d", "e", "f", "g", "h", "i", "j", "k", "l", "m",
      "n", "o", "p", "q", "r", "s", "t", "u", "v", "w", "x", "y", "z">>

\* str.lower() on a sequence of characters
Lower(chars) ==
    [i \in 1..Len(chars) |->
        IF \E k \in 1..Len(UpperCase) : UpperCase[k] = chars[i]
        THEN LowerCase[CHOOSE k \in 1..Len(UpperCase) : UpperCase[k] = chars[i]]
        ELSE chars[i]]

\* word in chars: chars holds word as a run of consecutive characters
Contains(chars, word) ==
    \E i \in 1..(Len(chars) - Len(word) + 1) : SubSeq(chars, i, i + Len(word) - 1) = word

\* the tests with the type of the column taken after the tests on its name
Mutant_interval_name_before_type(column_name, data_type) ==
    IF Contains(Lower(Spelling(column_name)), Spelling("hour")) THEN "hourly"
    ELSE IF Contains(Lower(Spelling(column_name)), Spelling("week")) THEN "weekly"
    ELSE IF Contains(Lower(Spelling(column_name)), Spelling("month")) THEN "monthly"
    ELSE IF data_type \in {"timestamp", "timestamp without time zone",
                           "timestamp with time zone"}
    THEN "hourly"
    ELSE "daily"

\* 'hour' / 'week' / 'month' in column_lower, where column_lower = column_name.lower()
NameContains(column_name, word) == Contains(Lower(Spelling(column_name)), Spelling(word))

_determine_expected_interval(column_name, data_type) ==
    IF NameContains(column_name, "hour")
       \/ data_type \in {"timestamp", "timestamp without time zone", "timestamp with time zone"}
    THEN "hourly"
    ELSE IF NameContains(column_name, "week") THEN "weekly"
    ELSE IF NameContains(column_name, "month") THEN "monthly"
    ELSE "daily"

\* .get(key, default) on a report
Get(r, key, default) == IF key \in DOMAIN r THEN r[key] ELSE default

\* the loop of find_gaps_in_table over the date columns
RECURSIVE column_analyses_loop(_, _, _, _)
column_analyses_loop(table_name, schema, date_columns, acc) ==
    IF date_columns = <<>> THEN acc
    ELSE LET column == Head(date_columns)
             expected_interval ==
                 _determine_expected_interval(column.column_name, column.data_type)
             column_analysis ==
                 find_gaps_in_date_column(table_name, column.column_name, schema, expected_interval)
         IN  column_analyses_loop(table_name, schema, Tail(date_columns),
                 [column_analyses |-> Append(acc.column_analyses, column_analysis),
                  total_gaps |-> acc.total_gaps + Get(column_analysis, "total_gaps", 0)])

\* "Determine overall severity": the table starts at low and the chain raises it
gap_overall_severity(severities) ==
    IF "critical" \in Range(severities) THEN "critical"
    ELSE IF "high" \in Range(severities) THEN "high"
    ELSE IF "medium" \in Range(severities) THEN "medium"
    ELSE "low"

find_gaps_in_table(table_name, schema) ==
    LET date_columns == get_date_columns(table_name, schema)
    IN  IF date_columns.raised
        THEN error_report(table_name, schema, date_columns.error)
        ELSE IF date_columns.value = <<>>
        THEN [table_name |-> table_name,
              schema |-> schema,
              date_columns_found |-> 0,
              message |-> "No date columns found in table"]
        ELSE
        LET loop == column_analyses_loop(table_name, schema, date_columns.value,
                        [column_analyses |-> <<>>, total_gaps |-> 0])
            severities == [i \in 1..Len(loop.column_analyses) |->
                              Get(loop.column_analyses[i], "severity", "low")]
        IN  [table_name |-> table_name,
             schema |-> schema,
             date_columns_found |-> Len(date_columns.value),
             column_analyses |-> loop.column_analyses,
             total_gaps |-> loop.total_gaps,
             severity |-> gap_overall_severity(severities)]

\* the gap query issued whether or not the range query found a date
Mutant_gap_query_without_dates(table_name, date_column, schema) ==
    <<Query("date_range", date_column)>>
        \o (IF \E c \in DateColumnNamed(table_name, schema, date_column) :
                   ~c.range_query_fails
            THEN <<Query("gap", date_column)>>
            ELSE <<>>)

\* the queries find_gaps_in_date_column issues, in order: the range query, and
\* the gap query unless the range query raised or found no date
find_gaps_in_date_column_queries(table_name, date_column, schema) ==
    <<Query("date_range", date_column)>>
        \o (IF \E c \in DateColumnNamed(table_name, schema, date_column) :
                   ~c.range_query_fails /\ c.values # {}
            THEN <<Query("gap", date_column)>>
            ELSE <<>>)

RECURSIVE column_analyses_queries(_, _, _)
\* the queries the loop of find_gaps_in_table issues
column_analyses_queries(table_name, schema, date_columns) ==
    IF date_columns = <<>> THEN <<>>
    ELSE find_gaps_in_date_column_queries(table_name, Head(date_columns).column_name, schema)
             \o column_analyses_queries(table_name, schema, Tail(date_columns))

\* the queries find_gaps_in_table issues, in order
find_gaps_in_table_queries(table_name, schema) ==
    <<Query("date_columns", table_name)>>
        \o (IF get_date_columns(table_name, schema).raised THEN <<>>
            ELSE column_analyses_queries(table_name, schema,
                     get_date_columns(table_name, schema).value))

(***************************************************************************)
(* The schema scans.  Each is a loop over the tables that                   *)
(* SchemaReader.get_tables_by_schema enumerated; the operators below are    *)
(* the enumeration, the dictionary the scan starts with, and one iteration  *)
(* of each checker's loop.                                                  *)
(***************************************************************************)
\* one entry of get_tables_by_schema; a failing count is logged and reads as 0
table_info(t) ==
    IF "row_count" \in t.fails
    THEN [table_name |-> t.table_name, table_type |-> "BASE TABLE",
          column_count |-> 0, row_count |-> 0]
    ELSE [table_name |-> t.table_name, table_type |-> "BASE TABLE",
          column_count |-> Len(t.columns), row_count |-> t.row_count]

\* SchemaReader.get_tables_by_schema: only the query that lists the tables can raise
get_tables_by_schema(schema) ==
    IF schema \notin DOMAIN db THEN [raised |-> FALSE, value |-> <<>>]
    ELSE IF db[schema].list_fails
    THEN [raised |-> TRUE, error |-> <<"query failed", "information_schema.tables", schema>>]
    ELSE [raised |-> FALSE,
          value |-> [i \in 1..Len(db[schema].tables) |-> table_info(db[schema].tables[i])]]

\* the except branch of a schema scan
schema_error_result(schema, error) ==
    [schema |-> schema, error |-> error, severity |-> "error"]

\* the dictionary check_schema_missing_values starts with
missing_schema_analysis(schema, table_list) ==
    [schema |-> schema, total_tables |-> Len(table_list), tables_analyzed |-> 0,
     tables_with_missing |-> 0, critical_issues |-> 0, high_issues |-> 0,
     medium_issues |-> 0, low_issues |-> 0, table_results |-> <<>>]

\* a table at low counted in no tally
Mutant_missing_tally_skips_low(analysis, table_analysis) ==
    LET appended == [analysis EXCEPT !.table_results = Append(@, table_analysis),
                                     !.tables_analyzed = @ + 1]
    IN  IF Get(table_analysis, "severity", "none") = "error"
        THEN appended
        ELSE LET severity == Get(table_analysis, "severity", "low")
                 counted == IF table_analysis.columns_with_missing > 0
                            THEN [appended EXCEPT !.tables_with_missing = @ + 1]
                            ELSE appended
             IN  CASE severity = "critical" -> [counted EXCEPT !.critical_issues = @ + 1]
                   [] severity = "high" -> [counted EXCEPT !.high_issues = @ + 1]
                   [] severity = "medium" -> [counted EXCEPT !.medium_issues = @ + 1]
                   [] OTHER -> counted

\* an error table counted as a table at low
Mutant_missing_tally_counts_errors(analysis, table_analysis) ==
    LET appended == [analysis EXCEPT !.table_results = Append(@, table_analysis),
                                     !.tables_analyzed = @ + 1]
    IN  IF table_analysis.severity = "error"
        THEN [appended EXCEPT !.low_issues = @ + 1]
        ELSE LET severity == table_analysis.severity
                 counted == IF table_analysis.columns_with_missing > 0
                            THEN [appended EXCEPT !.tables_with_missing = @ + 1]
                            ELSE appended
             IN  CASE severity = "critical" -> [counted EXCEPT !.critical_issues = @ + 1]
                   [] severity = "high" -> [counted EXCEPT !.high_issues = @ + 1]
                   [] severity = "medium" -> [counted EXCEPT !.medium_issues = @ + 1]
                   [] severity = "low" -> [counted EXCEPT !.low_issues = @ + 1]
                   [] OTHER -> counted

\* the loop body of check_schema_missing_values after the table's check returned
missing_tally(analysis, table_analysis) ==
    LET appended == [analysis EXCEPT !.table_results = Append(@, table_analysis),
                                     !.tables_analyzed = @ + 1]
    IN  IF Get(table_analysis, "severity", "none") = "error"
        THEN appended
        ELSE LET severity == Get(table_analysis, "severity", "low")
                 counted == IF table_analysis.columns_with_missing > 0
                            THEN [appended EXCEPT !.tables_with_missing = @ + 1]
                            ELSE appended
             IN  CASE severity = "critical" -> [counted EXCEPT !.critical_issues = @ + 1]
                   [] severity = "high" -> [counted EXCEPT !.high_issues = @ + 1]
                   [] severity = "medium" -> [counted EXCEPT !.medium_issues = @ + 1]
                   [] severity = "low" -> [counted EXCEPT !.low_issues = @ + 1]
                   [] OTHER -> counted

\* one iteration of the loop of check_schema_missing_values
missing_table_step(analysis, table, schema) ==
    missing_tally(analysis, check_table_missing_values(table.table_name, schema))

\* the dictionary check_schema_duplicates starts with
duplicate_schema_analysis(schema, table_list) ==
    [schema |-> schema, total_tables |-> Len(table_list), tables_analyzed |-> 0,
     tables_with_duplicates |-> 0, critical_issues |-> 0, high_issues |-> 0,
     medium_issues |-> 0, low_issues |-> 0, table_results |-> <<>>]

\* the primary-key result left out of the severities of a table
Mutant_duplicate_tally_without_pk(analysis, table_name, general_duplicates, pk_duplicates, bk_duplicates) ==
    LET table_analysis == [table_name |-> table_name,
                           general_duplicates |-> general_duplicates,
                           primary_key_duplicates |-> pk_duplicates,
                           business_key_duplicates |-> bk_duplicates]
        appended == [analysis EXCEPT !.table_results = Append(@, table_analysis),
                                     !.tables_analyzed = @ + 1]
        severities == {Get(general_duplicates, "severity", "low"),
                       Get(bk_duplicates, "severity", "low")}
    IN  IF "error" \in severities THEN appended
        ELSE LET counted ==
                     IF \E dup \in {general_duplicates, bk_duplicates} :
                            Get(dup, "total_duplicate_rows", 0) > 0
                     THEN [appended EXCEPT !.tables_with_duplicates = @ + 1]
                     ELSE appended
             IN  IF "critical" \in severities
                 THEN [counted EXCEPT !.critical_issues = @ + 1]
                 ELSE IF "high" \in severities
                 THEN [counted EXCEPT !.high_issues = @ + 1]
                 ELSE IF "medium" \in severities
                 THEN [counted EXCEPT !.medium_issues = @ + 1]
                 ELSE IF "low" \in severities
                 THEN [counted EXCEPT !.low_issues = @ + 1]
                 ELSE counted

\* the loop body of check_schema_duplicates after the three sub-checks returned
duplicate_tally(analysis, table_name, general_duplicates, pk_duplicates, bk_duplicates) ==
    LET table_analysis == [table_name |-> table_name,
                           general_duplicates |-> general_duplicates,
                           primary_key_duplicates |-> pk_duplicates,
                           business_key_duplicates |-> bk_duplicates]
        appended == [analysis EXCEPT !.table_results = Append(@, table_analysis),
                                     !.tables_analyzed = @ + 1]
        severities == {Get(general_duplicates, "severity", "low"),
                       Get(pk_duplicates, "severity", "low"),
                       Get(bk_duplicates, "severity", "low")}
    IN  IF "error" \in severities THEN appended
        ELSE LET counted ==
                     IF \E dup \in {general_duplicates, bk_duplicates} :
                            Get(dup, "total_duplicate_rows", 0) > 0
                     THEN [appended EXCEPT !.tables_with_duplicates = @ + 1]
                     ELSE appended
             IN  IF "critical" \in severities
                 THEN [counted EXCEPT !.critical_issues = @ + 1]
                 ELSE IF "high" \in severities
                 THEN [counted EXCEPT !.high_issues = @ + 1]
                 ELSE IF "medium" \in severities
                 THEN [counted EXCEPT !.medium_issues = @ + 1]
                 ELSE IF "low" \in severities
                 THEN [counted EXCEPT !.low_issues = @ + 1]
                 ELSE counted

\* one iteration of the loop of check_schema_duplicates
duplicate_table_step(analysis, table, schema) ==
    duplicate_tally(analysis, table.table_name,
                    check_table_duplicates(table.table_name, schema, NoArgument),
                    check_primary_key_duplicates(table.table_name, schema),
                    check_business_key_duplicates(table.table_name, schema, NoArgument))

\* the queries of one iteration: those of its three checks, in order
duplicate_table_step_queries(table_name, schema) ==
    check_table_duplicates_queries(table_name, schema, NoArgument)
        \o check_primary_key_duplicates_queries(table_name, schema)
        \o check_business_key_duplicates_queries(table_name, schema, NoArgument)

\* the dictionary find_gaps_in_schema starts with
gap_schema_analysis(schema, table_list) ==
    [schema |-> schema, total_tables |-> Len(table_list), tables_analyzed |-> 0,
     tables_with_gaps |-> 0, critical_issues |-> 0, high_issues |-> 0,
     medium_issues |-> 0, low_issues |-> 0, table_results |-> <<>>]

\* a report without a gap count taken to hold a gap
Mutant_gap_tally_one_gap_by_default(analysis, table_analysis) ==
    LET appended == [analysis EXCEPT !.table_results = Append(@, table_analysis),
                                     !.tables_analyzed = @ + 1]
    IN  IF Get(table_analysis, "severity", "none") = "error"
        THEN appended
        ELSE LET severity == Get(table_analysis, "severity", "low")
                 counted == IF Get(table_analysis, "total_gaps", 1) > 0
                            THEN [appended EXCEPT !.tables_with_gaps = @ + 1]
                            ELSE appended
             IN  CASE severity = "critical" -> [counted EXCEPT !.critical_issues = @ + 1]
                   [] severity = "high" -> [counted EXCEPT !.high_issues = @ + 1]
                   [] severity = "medium" -> [counted EXCEPT !.medium_issues = @ + 1]
                   [] severity = "low" -> [counted EXCEPT !.low_issues = @ + 1]
                   [] OTHER -> counted

\* a report without a severity counted in no tally
Mutant_gap_tally_without_default(analysis, table_analysis) ==
    LET appended == [analysis EXCEPT !.table_results = Append(@, table_analysis),
                                     !.tables_analyzed = @ + 1]
    IN  IF Get(table_analysis, "severity", "none") = "error"
        THEN appended
        ELSE LET severity == Get(table_analysis, "severity", "none")
                 counted == IF Get(table_analysis, "total_gaps", 0) > 0
                            THEN [appended EXCEPT !.tables_with_gaps = @ + 1]
                            ELSE appended
             IN  CASE severity = "critical" -> [counted EXCEPT !.critical_issues = @ + 1]
                   [] severity = "high" -> [counted EXCEPT !.high_issues = @ + 1]
                   [] severity = "medium" -> [counted EXCEPT !.medium_issues = @ + 1]
                   [] severity = "low" -> [counted EXCEPT !.low_issues = @ + 1]
                   [] OTHER -> counted

\* the loop body of find_gaps_in_schema after the table's analysis returned
gap_tally(analysis, table_analysis) ==
    LET appended == [analysis EXCEPT !.table_results = Append(@, table_analysis),
                                     !.tables_analyzed = @ + 1]
    IN  IF Get(table_analysis, "severity", "none") = "error"
        THEN appended
        ELSE LET severity == Get(table_analysis, "severity", "low")
                 counted == IF Get(table_analysis, "total_gaps", 0) > 0
                            THEN [appended EXCEPT !.tables_with_gaps = @ + 1]
                            ELSE appended
             IN  CASE severity = "critical" -> [counted EXCEPT !.critical_issues = @ + 1]
                   [] severity = "high" -> [counted EXCEPT !.high_issues = @ + 1]
                   [] severity = "medium" -> [counted EXCEPT !.medium_issues = @ + 1]
                   [] severity = "low" -> [counted EXCEPT !.low_issues = @ + 1]
                   [] OTHER -> counted

\* one iteration of the loop of find_gaps_in_schema
gap_table_step(analysis, table, schema) ==
    gap_tally(analysis, find_gaps_in_table(table.table_name, schema))

(***************************************************************************)
(* Database contents.  Each behaviour follows one checker; a table carries  *)
(* what that checker's queries read.                                        *)
(***************************************************************************)
Checkers == {"missing", "duplicates", "gaps"}

ColumnNameAt == <<"id", "email", "first_name", "last_name">>
DataTypeAt == <<"integer", "text", "text", "text">>

\* the descriptors a column at position i may have in a table of total rows,
\* with its NULL count drawn from nulls
ColumnOptions(i, nulls) ==
    {[column_name |-> ColumnNameAt[i], data_type |-> DataTypeAt[i],
      is_nullable |-> "NO", null_count |-> n, query_fails |-> FALSE] : n \in nulls}
    \cup {[column_name |-> ColumnNameAt[i], data_type |-> DataTypeAt[i],
           is_nullable |-> "YES", null_count |-> n, query_fails |-> FALSE] :
              n \in {SetMin(nulls), SetMax(nulls)}}
    \cup {[column_name |-> ColumnNameAt[i], data_type |-> DataTypeAt[i],
           is_nullable |-> "NO", null_count |-> 0, query_fails |-> TRUE],
          [column_name |-> ColumnNameAt[i], data_type |-> DataTypeAt[i],
           is_nullable |-> "YES", null_count |-> SetMax(nulls), query_fails |-> TRUE]}

MissingTable(table_name, row_count, columns, structure_fails) ==
    [table_name |-> table_name, structure_fails |-> structure_fails, row_count |-> row_count,
     columns |-> columns, primary_keys |-> <<>>, fails |-> {}]

\* NULL counts at 0%, 4%, 5%, 20% and 50% of the rows
CoarseNulls(row_count) ==
    {0, row_count \div 25, row_count \div 20, row_count \div 5, row_count \div 2}

RECURSIVE ColumnLists(_, _)
\* the column lists of length n, the column at position i drawn from options[i]
ColumnLists(n, nulls) ==
    IF n = 0 THEN {<<>>}
    ELSE {Append(cs, c) : cs \in ColumnLists(n - 1, nulls), c \in ColumnOptions(n, nulls)}

\* one column with every NULL count, or several columns with a few
MissingTables ==
    UNION {{MissingTable("customer", t, <<c>>, FALSE) :
               c \in ColumnOptions(1, 0..Min(t, MaxRows))} :
                   t \in (0..MaxRows) \cup {BigTableRows}}
    \cup UNION {{MissingTable("customer", BigTableRows, cs, FALSE) :
                    cs \in ColumnLists(n, CoarseNulls(BigTableRows))} : n \in 0..MaxCols}
    \cup {MissingTable("customer", BigTableRows, <<>>, TRUE)}

RowValues == [id : {1, 2}, email : {"a", "b"}, first_name : {"Ann"}, last_name : {"Lee"}]

FourColumns ==
    [i \in 1..4 |-> [column_name |-> ColumnNameAt[i], data_type |-> DataTypeAt[i],
                     is_nullable |-> "YES", null_count |-> 0, query_fails |-> FALSE]]

DuplicateTable(table_name, primary_keys, rows, unique_rows, structure_fails, fails) ==
    [table_name |-> table_name, structure_fails |-> structure_fails,
     row_count |-> SumOver(DOMAIN rows, rows) + unique_rows,
     columns |-> FourColumns, primary_keys |-> primary_keys,
     rows |-> rows, unique_rows |-> unique_rows, fails |-> fails]

\* every content without a failing query, and every failing query on a small table
DuplicateTables ==
    {DuplicateTable(n, pk, rows, u, FALSE, {}) :
        n \in {"customer", "staff"}, pk \in {<<>>, <<"id">>},
        rows \in [RowValues -> 0..MaxMult], u \in 0..MaxUnique}
    \cup {DuplicateTable("customer", <<"id">>, rows, 0, FALSE, {f}) :
            rows \in [RowValues -> 0..MaxMult],
            f \in {"general", "primary_key", "business_key", "row_count"}}
    \cup {DuplicateTable("customer", <<"id">>, rows, 0, TRUE, {}) :
            rows \in [RowValues -> 0..MaxMult]}
    \cup {DuplicateTable("staff", <<>>, rows, 0, FALSE, {f}) :
            rows \in [RowValues -> 0..MaxMult], f \in {"primary_key", "business_key"}}

\* midnight of day 1..MaxDay, and 00:30 and 03:00 of day 1
Times == {d * MinutesPerDay : d \in 1..MaxDay}
         \cup {MinutesPerDay + 30, MinutesPerDay + 3 * MinutesPerHour}

DateColumn(column_name, data_type, values, range_query_fails, gap_query_fails) ==
    [column_name |-> column_name, data_type |-> data_type, is_nullable |-> "YES",
     values |-> values, range_query_fails |-> range_query_fails,
     gap_query_fails |-> gap_query_fails]

DateColumnKinds ==
    {<<"rental_date", "date">>, <<"last_update", "timestamp without time zone">>,
     <<"week_start", "date">>, <<"billing_month", "date">>}

DateColumnKindAt ==
    <<<<"rental_date", "date">>, <<"last_update", "timestamp without time zone">>,
      <<"week_start", "date">>, <<"billing_month", "date">>>>

QueryFailures == {<<FALSE, FALSE>>, <<TRUE, FALSE>>, <<FALSE, TRUE>>}

CoarseValues == {{}, {MinutesPerDay, 2 * MinutesPerDay}, {MinutesPerDay, 3 * MinutesPerDay}}

RECURSIVE DateColumnLists(_)
DateColumnLists(n) ==
    IF n = 0 THEN {<<>>}
    ELSE {Append(cs, DateColumn(DateColumnKindAt[n][1], DateColumnKindAt[n][2], v, f[1], f[2])) :
             cs \in DateColumnLists(n - 1), v \in CoarseValues, f \in QueryFailures}

GapTable(table_name, date_columns, fails) ==
    [table_name |-> table_name, structure_fails |-> FALSE, row_count |-> 0,
     columns |-> <<>>, primary_keys |-> <<>>, date_columns |-> date_columns, fails |-> fails]

\* one date column with every set of values, or several columns with a few
GapTables ==
    {GapTable("rental", <<DateColumn(k[1], k[2], v, f[1], f[2])>>, {}) :
        k \in DateColumnKinds, v \in SUBSET Times, f \in QueryFailures}
    \cup UNION {{GapTable("rental", cs, {}) : cs \in DateColumnLists(n)} : n \in 0..MaxDateCols}
    \cup {GapTable("rental", <<>>, {"date_columns"})}

TableContents(c) ==
    CASE c = "missing" -> MissingTables
      [] c = "duplicates" -> DuplicateTables
      [] c = "gaps" -> GapTables

Schema(table_list, list_fails) == [tables |-> table_list, list_fails |-> list_fails]

(***************************************************************************)
(* The table-level and column-level entry points, each called once on a     *)
(* database of one table.                                                   *)
(***************************************************************************)
Pending == [pending |-> TRUE]

TablesOf(schema) == IF schema \in DOMAIN db THEN Range(db[schema].tables) ELSE {}

InitTable ==
    /\ checker \in Checkers
    /\ db \in {[s \in {"public"} |-> Schema(<<t>>, FALSE)] : t \in TableContents(checker)}
    /\ pc = "idle"
    /\ call = [entry |-> "none"]
    /\ report = Pending
    /\ schemas = <<>>
    /\ results = <<>>
    /\ tables = <<>>
    /\ schema_analysis = Pending
    /\ queries = <<>>

Returned(entry, args, value, issued) ==
    /\ call' = [entry |-> entry, args |-> args]
    /\ report' = value
    /\ queries' = issued
    /\ pc' = "done"
    /\ UNCHANGED <<checker, db, schemas, results, tables, schema_analysis>>

CheckTableMissingValues ==
    /\ pc = "idle" /\ checker = "missing"
    /\ \E schema \in DOMAIN db : \E t \in TablesOf(schema) :
          Returned("check_table_missing_values",
                   [table_name |-> t.table_name, schema |-> schema],
                   check_table_missing_values(t.table_name, schema),
                   check_table_missing_values_queries(t.table_name, schema))

CheckTableDuplicates ==
    /\ pc = "idle" /\ checker = "duplicates"
    /\ \E schema \in DOMAIN db : \E t \in TablesOf(schema) :
       \E columns \in {NoArgument, Argument(<<"email", "first_name", "last_name">>)} :
          Returned("check_table_duplicates",
                   [table_name |-> t.table_name, schema |-> schema, columns |-> columns],
                   check_table_duplicates(t.table_name, schema, columns),
                   check_table_duplicates_queries(t.table_name, schema, columns))

CheckPrimaryKeyDuplicates ==
    /\ pc = "idle" /\ checker = "duplicates"
    /\ \E schema \in DOMAIN db : \E t \in TablesOf(schema) :
          Returned("check_primary_key_duplicates",
                   [table_name |-> t.table_name, schema |-> schema],
                   check_primary_key_duplicates(t.table_name, schema),
                   check_primary_key_duplicates_queries(t.table_name, schema))

\* a caller's own mapping: the e-mail address alone identifies a member of staff
StaffBusinessKeys == [n \in {"staff"} |-> <<"email">>]

CheckBusinessKeyDuplicates ==
    /\ pc = "idle" /\ checker = "duplicates"
    /\ \E schema \in DOMAIN db : \E t \in TablesOf(schema) :
       \E business_keys \in {NoArgument, Argument(StaffBusinessKeys)} :
          Returned("check_business_key_duplicates",
                   [table_name |-> t.table_name, schema |-> schema,
                    business_keys |-> business_keys],
                   check_business_key_duplicates(t.table_name, schema, business_keys),
                   check_business_key_duplicates_queries(t.table_name, schema,
                                                         business_keys))

Intervals == {"daily", "hourly", "weekly", "monthly"}

\* expected_interval left out by the caller, or one of the four granularities
ExpectedIntervalArguments == {NoArgument} \cup {Argument(i) : i \in Intervals}

FindGapsInDateColumn ==
    /\ pc = "idle" /\ checker = "gaps"
    /\ \E schema \in DOMAIN db : \E t \in TablesOf(schema) :
       \E c \in Range(t.date_columns) : \E expected_interval \in ExpectedIntervalArguments :
          Returned("find_gaps_in_date_column",
                   [table_name |-> t.table_name, date_column |-> c.column_name,
                    schema |-> schema, expected_interval |-> expected_interval],
                   find_gaps_in_date_column(t.table_name, c.column_name, schema,
                                            DefaultExpectedInterval(expected_interval)),
                   find_gaps_in_date_column_queries(t.table_name, c.column_name, schema))

FindGapsInTable ==
    /\ pc = "idle" /\ checker = "gaps"
    /\ \E schema \in DOMAIN db : \E t \in TablesOf(schema) :
          Returned("find_gaps_in_table",
                   [table_name |-> t.table_name, schema |-> schema],
                   find_gaps_in_table(t.table_name, schema),
                   find_gaps_in_table_queries(t.table_name, schema))

NextTable ==
    \/ CheckTableMissingValues
    \/ CheckTableDuplicates
    \/ CheckPrimaryKeyDuplicates
    \/ CheckBusinessKeyDuplicates
    \/ FindGapsInDateColumn
    \/ FindGapsInTable

SpecTable == InitTable /\ [][NextTable]_vars

(***************************************************************************)
(* run_analysis over an explicit list of schemas, one step per loop         *)
(* iteration.  The database holds the schemas public and sales; public      *)
(* holds up to MaxTables tables, each with one of a few contents.           *)
(***************************************************************************)
SchemaTableNameAt == <<"customer", "staff", "address", "store">>

RequiredColumn(null_count, query_fails) ==
    [column_name |-> "email", data_type |-> "text", is_nullable |-> "NO",
     null_count |-> null_count, query_fails |-> query_fails]

\* 100 rows with 0, 1, 10, 20 or 50 NULLs in a required column, a failing
\* NULL-count query, or a failing metadata query
MissingContents(n) ==
    {MissingTable(n, 100, <<RequiredColumn(k, FALSE)>>, FALSE) : k \in {0, 1, 10, 20, 50}}
    \cup {MissingTable(n, 100, <<RequiredColumn(0, TRUE)>>, FALSE),
          MissingTable(n, 100, <<>>, TRUE)}

\* rows[r] = k for the rows r of R, 0 elsewhere
RowsOf(R, k) == [r \in RowValues |-> IF r \in R THEN k ELSE 0]

Row(id, email) == [id |-> id, email |-> email, first_name |-> "Ann", last_name |-> "Lee"]

\* no duplicate and no primary key; a pair of equal rows among 100, among 40 and
\* (without primary key) four pairs among 40; two rows that share only their id;
\* a failing general query
DuplicateContents(n) ==
    {DuplicateTable(n, <<>>, RowsOf({}, 0), 20, FALSE, {}),
     DuplicateTable(n, <<"id">>, RowsOf({Row(1, "a")}, 2), 98, FALSE, {}),
     DuplicateTable(n, <<"id">>, RowsOf({Row(1, "a")}, 2), 38, FALSE, {}),
     DuplicateTable(n, <<>>, RowsOf(RowValues, 2), 32, FALSE, {}),
     DuplicateTable(n, <<"id">>, RowsOf({Row(1, "a"), Row(1, "b")}, 1), 38, FALSE, {}),
     DuplicateTable(n, <<"id">>, RowsOf({Row(1, "a")}, 2), 38, FALSE, {"general"}),
     DuplicateTable(n, <<"id">>, RowsOf({Row(1, "a")}, 2), 38, FALSE, {"row_count"})}

\* no date column; days 1 and 2; days 1 and 3; a failing gap query; a failing
\* range query; a failing metadata query
GapContents(n) ==
    {GapTable(n, <<>>, {}),
     GapTable(n, <<DateColumn("rental_date", "date",
                              {MinutesPerDay, 2 * MinutesPerDay}, FALSE, FALSE)>>, {}),
     GapTable(n, <<DateColumn("rental_date", "date",
                              {MinutesPerDay, 3 * MinutesPerDay}, FALSE, FALSE)>>, {}),
     GapTable(n, <<DateColumn("rental_date", "date",
                              {MinutesPerDay, 3 * MinutesPerDay}, FALSE, TRUE)>>, {}),
     GapTable(n, <<DateColumn("rental_date", "date",
                              {MinutesPerDay, 3 * MinutesPerDay}, TRUE, FALSE)>>, {}),
     GapTable(n, <<>>, {"date_columns"})}

SchemaContents(c, n) ==
    CASE c = "missing" -> MissingContents(n)
      [] c = "duplicates" -> DuplicateContents(n)
      [] c = "gaps" -> GapContents(n)

\* the table lists of length n, the table at position i named SchemaTableNameAt[i]
RECURSIVE TableLists(_, _)
TableLists(c, n) ==
    IF n = 0 THEN {<<>>}
    ELSE {Append(ts, t) : ts \in TableLists(c, n - 1),
                          t \in SchemaContents(c, SchemaTableNameAt[n])}

PublicSchemas(c) ==
    {Schema(ts, FALSE) : ts \in UNION {TableLists(c, n) : n \in 0..MaxTables}}
    \cup {Schema(<<>>, TRUE)}

\* the one table of sales: a finding at medium, or days 1 and 3
SalesTable(c) ==
    CASE c = "missing" -> MissingTable("customer", 100, <<RequiredColumn(10, FALSE)>>, FALSE)
      [] c = "duplicates" ->
             DuplicateTable("customer", <<"id">>, RowsOf({Row(1, "a")}, 2), 38, FALSE, {})
      [] c = "gaps" ->
             GapTable("customer", <<DateColumn("rental_date", "date",
                                      {MinutesPerDay, 3 * MinutesPerDay}, FALSE, FALSE)>>, {})

\* sales cannot be listed, or holds that table
SalesSchemas(c) == {Schema(<<>>, TRUE), Schema(<<SalesTable(c)>>, FALSE)}

\* the lists of schemas run_analysis is called with; archive does not exist
RequestedSchemas ==
    {<<>>, <<"public">>, <<"sales", "public">>, <<"public", "archive">>}

InitSchema ==
    /\ checker \in Checkers
    /\ db \in {[s \in {"public", "sales"} |-> IF s = "public" THEN p ELSE q] :
                  p \in PublicSchemas(checker), q \in SalesSchemas(checker)}
    /\ pc = "idle"
    /\ call = [entry |-> "none"]
    /\ report = Pending
    /\ schemas = <<>>
    /\ results = <<>>
    /\ tables = <<>>
    /\ schema_analysis = Pending
    /\ queries = <<>>

\* run_analysis(schemas): results = []
RunAnalysis ==
    /\ pc = "idle"
    /\ \E requested \in RequestedSchemas :
          /\ call' = [entry |-> "run_analysis", args |-> [schemas |-> requested]]
          /\ schemas' = requested
    /\ results' = <<>>
    /\ pc' = "for schema"
    /\ UNCHANGED <<checker, db, report, tables, schema_analysis, queries>>

\* the schema scan is entered for the next schema of the list and lists its
\* tables; if that raises, the scan returns its error result at once
EnumerateTables ==
    /\ pc = "for schema"
    /\ Len(results) < Len(schemas)
    /\ LET schema == schemas[Len(results) + 1]
           listed == get_tables_by_schema(schema)
       IN  IF listed.raised
           THEN /\ results' = Append(results, schema_error_result(schema, listed.error))
                /\ UNCHANGED <<pc, tables, schema_analysis>>
           ELSE /\ tables' = listed.value
                /\ schema_analysis' =
                       CASE checker = "missing" -> missing_schema_analysis(schema, listed.value)
                         [] checker = "duplicates" ->
                                duplicate_schema_analysis(schema, listed.value)
                         [] checker = "gaps" -> gap_schema_analysis(schema, listed.value)
                /\ pc' = "for table"
                /\ UNCHANGED results
    /\ UNCHANGED <<checker, db, call, report, schemas, queries>>

\* one iteration of the loop over the enumerated tables
LoopIteration(updated, issued) ==
    /\ pc = "for table"
    /\ tables # <<>>
    /\ schema_analysis' = updated
    /\ queries' = issued
    /\ tables' = Tail(tables)
    /\ UNCHANGED <<checker, db, pc, call, report, schemas, results>>

CheckSchemaMissingValues ==
    /\ checker = "missing" /\ pc = "for table" /\ tables # <<>>
    /\ LoopIteration(missing_table_step(schema_analysis, Head(tables), schema_analysis.schema),
                     check_table_missing_values_queries(Head(tables).table_name,
                                                        schema_analysis.schema))

CheckSchemaDuplicates ==
    /\ checker = "duplicates" /\ pc = "for table" /\ tables # <<>>
    /\ LoopIteration(duplicate_table_step(schema_analysis, Head(tables), schema_analysis.schema),
                     duplicate_table_step_queries(Head(tables).table_name,
                                                  schema_analysis.schema))

FindGapsInSchema ==
    /\ checker = "gaps" /\ pc = "for table" /\ tables # <<>>
    /\ LoopIteration(gap_table_step(schema_analysis, Head(tables), schema_analysis.schema),
                     find_gaps_in_table_queries(Head(tables).table_name,
                                                schema_analysis.schema))

\* return schema_analysis; results.append(schema_result)
ReturnSchemaAnalysis ==
    /\ pc = "for table"
    /\ tables = <<>>
    /\ results' = Append(results, schema_analysis)
    /\ schema_analysis' = Pending
    /\ pc' = "for schema"
    /\ UNCHANGED <<checker, db, call, report, schemas, tables, queries>>

\* return results
ReturnResults ==
    /\ pc = "for schema"
    /\ Len(results) = Len(schemas)
    /\ pc' = "done"
    /\ UNCHANGED <<checker, db, call, report, schemas, results, tables, schema_analysis,
                   queries>>

NextSchema ==
    \/ RunAnalysis
    \/ EnumerateTables
    \/ CheckSchemaMissingValues
    \/ CheckSchemaDuplicates
    \/ FindGapsInSchema
    \/ ReturnSchemaAnalysis
    \/ ReturnResults

SpecSchema == InitSchema /\ [][NextSchema]_vars

(***************************************************************************)
(* Properties of the table-level entry points (under SpecTable).            *)
(***************************************************************************)
\* the table a returned call was about
CalledTable ==
    CHOOSE t \in TablesOf(call.args.schema) : t.table_name = call.args.table_name

\* the position of a severity on the scale low < medium < high < critical
Rank(severity) ==
    CASE severity = "low" -> 1
      [] severity = "medium" -> 2
      [] severity = "high" -> 3
      [] severity = "critical" -> 4

ReturnedFrom(entry) == pc = "done" /\ call.entry = entry

\* C1: in check_table_missing_values every flagged required column is classified by
\* p = null_count / total_rows x 100 (0 when total_rows = 0): critical iff p >= 50,
\* high iff 20 <= p < 50, medium iff 5 <= p < 20, low iff p < 5, the boundaries
\* inclusive, and a column with a larger p never has a lower severity.
C1_MissingSeverityThresholds ==
    (ReturnedFrom("check_table_missing_values") /\ report.severity # "error") =>
        \A i \in 1..Len(report.missing_details) :
            LET d == report.missing_details[i]
                c == CHOOSE x \in Range(CalledTable.columns) : x.column_name = d.column_name
                n == IF CalledTable.row_count = 0 THEN 0 ELSE 100 * c.null_count
                t == IF CalledTable.row_count = 0 THEN 1 ELSE CalledTable.row_count
            IN  /\ c.is_nullable = "NO" /\ c.null_count > 0
                /\ (d.severity = "critical") <=> (n >= 50 * t)
                /\ (d.severity = "high") <=> (n >= 20 * t /\ n < 50 * t)
                /\ (d.severity = "medium") <=> (n >= 5 * t /\ n < 20 * t)
                /\ (d.severity = "low") <=> (n < 5 * t)
                /\ \A j \in 1..Len(report.missing_details) :
                       report.missing_details[j].null_count <= d.null_count
                           => Rank(report.missing_details[j].severity) <= Rank(d.severity)

\* a report with a column at exactly 5% (medium) and another at exactly 50% (critical)
C1_Witness ==
    /\ ReturnedFrom("check_table_missing_values")
    /\ report.severity # "error"
    /\ \E i, j \in 1..Len(report.missing_details) :
          /\ 100 * report.missing_details[i].null_count = 5 * report.total_rows
          /\ report.missing_details[i].severity = "medium"
          /\ 100 * report.missing_details[j].null_count = 50 * report.total_rows
          /\ report.missing_details[j].severity = "critical"

\* the duplicate percentage d of a report as the fraction D / T
DuplicateClass(D, T) ==
    IF T > 0 /\ 100 * D >= 30 * T THEN "critical"
    ELSE IF T > 0 /\ 100 * D >= 15 * T THEN "high"
    ELSE IF T > 0 /\ 100 * D >= 5 * T THEN "medium"
    ELSE "low"

\* C2: check_table_duplicates and check_business_key_duplicates classify the duplicate
\* percentage d with the same thresholds (critical iff d >= 30, high iff 15 <= d < 30,
\* medium iff 5 <= d < 15, low iff d < 5), and on the same columns of the same table
\* the two checks return the same severity.
C2_DuplicateSeverityShared ==
    /\ (/\ pc = "done"
        /\ call.entry \in {"check_table_duplicates", "check_business_key_duplicates"}
        /\ "total_duplicate_rows" \in DOMAIN report)
           => report.severity = DuplicateClass(report.total_duplicate_rows, CalledTable.row_count)
    /\ (/\ ReturnedFrom("check_table_duplicates")
        /\ call.args.columns.given
        /\ report.severity # "error")
           => LET bk == check_business_key_duplicates(call.args.table_name, call.args.schema,
                            [given |-> TRUE,
                             value |-> [n \in {call.args.table_name} |-> call.args.columns.value]])
              IN  bk.severity # "error" => bk.severity = report.severity

\* a business-key report at exactly 15% (high) and a general report at exactly 30%
\* (critical) are both reached; the state is the former
C2_Witness ==
    /\ ReturnedFrom("check_business_key_duplicates")
    /\ "total_duplicate_rows" \in DOMAIN report
    /\ 100 * report.total_duplicate_rows = 15 * CalledTable.row_count
    /\ report.total_duplicate_rows > 0
    /\ report.severity = "high"

\* the rows of table t whose primary-key columns hold the values k
RowsWithKey(t, columns, k) ==
    SumOver({r \in DOMAIN t.rows : Project(r, columns) = k}, t.rows)

\* C3: with a declared primary key, duplicate_count is the number of distinct
\* primary-key values held by more than one row, and severity is critical iff
\* duplicate_count > 0 and low otherwise, whatever share of the rows that is.
C3_PrimaryKeyDuplicates ==
    (/\ ReturnedFrom("check_primary_key_duplicates")
     /\ CalledTable.primary_keys # <<>>
     /\ report.severity # "error")
        => LET t == CalledTable
               keys == {Project(r, t.primary_keys) : r \in DOMAIN t.rows}
           IN  /\ report.has_primary_key
               /\ report.duplicate_count =
                      Cardinality({k \in keys : RowsWithKey(t, t.primary_keys, k) > 1})
               /\ (report.severity = "critical") <=> (report.duplicate_count > 0)
               /\ (report.severity = "low") <=> (report.duplicate_count = 0)

\* two rows out of forty share one key value: duplicate_count 1, critical at 5%
C3_Witness ==
    /\ ReturnedFrom("check_primary_key_duplicates")
    /\ CalledTable.primary_keys # <<>>
    /\ CalledTable.row_count = 40
    /\ SumOver(DOMAIN CalledTable.rows, CalledTable.rows) = 2
    /\ report.severity = "critical"
    /\ report.duplicate_count = 1

\* C5: find_gaps_in_date_column reports as gaps exactly the aligned buckets between
\* the minimum and the maximum observed value that hold no row, each as
\* [bucket_start, bucket_start + 1 unit): days {1,2,3,5,6} daily give one gap at
\* day 4, 00:00 and 03:00 hourly give the two gaps 01:00 and 02:00.
C5_GapsAreTheEmptyBuckets ==
    (ReturnedFrom("find_gaps_in_date_column") /\ report.severity # "error") =>
        LET column == CHOOSE c \in Range(CalledTable.date_columns) :
                          c.column_name = call.args.date_column
            interval == report.expected_interval
            expected == generate_series(Bucket(interval, SetMin(column.values)),
                                        Bucket(interval, SetMax(column.values)),
                                        Step(interval))
            empty == expected \ {Bucket(interval, v) : v \in column.values}
        IN  /\ report.total_gaps = Cardinality(empty)
            /\ {report.gaps[i].start_date : i \in 1..Len(report.gaps)} = empty
            /\ \A i \in 1..Len(report.gaps) :
                  report.gaps[i].end_date = report.gaps[i].start_date + Step(interval)

\* the severities of a list of column reports that lie on the scale
OnScale(severities) == Range(severities) \cap {"low", "medium", "high", "critical"}

\* the maximum on the scale low < medium < high < critical, low when there is none
MaxSeverity(S) ==
    IF S = {} THEN "low" ELSE CHOOSE s \in S : \A x \in S : Rank(x) <= Rank(s)

\* the severities of the column reports of a returned table report
ColumnSeverities ==
    IF call.entry = "check_table_missing_values"
    THEN [i \in 1..Len(report.missing_details) |-> report.missing_details[i].severity]
    ELSE IF "column_analyses" \in DOMAIN report
    THEN [i \in 1..Len(report.column_analyses) |-> report.column_analyses[i].severity]
    ELSE <<>>

TableReportReturned ==
    /\ pc = "done"
    /\ call.entry \in {"check_table_missing_values", "find_gaps_in_table"}
    /\ Get(report, "severity", "none") # "error"

\* C6 as stated: every table report of check_table_missing_values or
\* find_gaps_in_table has a severity, the maximum of its column reports'
\* severities and low when there is none on the scale.
C6_AsStated ==
    TableReportReturned =>
        /\ "severity" \in DOMAIN report
        /\ report.severity = MaxSeverity(OnScale(ColumnSeverities))

\* C6: the severity of a table report of check_table_missing_values, or of
\* find_gaps_in_table on a table with at least one date column, is the maximum of
\* its column reports' severities on the scale, low when none is on the scale; the
\* report for a table without date columns has no severity; 10 NULLs in the only
\* flagged column of a 100-row table give 10.00%, medium, and a medium table.
C6_ColumnToTableRollup ==
    TableReportReturned =>
        /\ IF call.entry = "find_gaps_in_table" /\ CalledTable.date_columns = <<>>
           THEN "severity" \notin DOMAIN report
           ELSE report.severity = MaxSeverity(OnScale(ColumnSeverities))
        /\ (/\ call.entry = "check_table_missing_values"
            /\ report.total_rows = 100
            /\ Len(report.missing_details) = 1
            /\ report.missing_details[1].null_count = 10)
               => /\ report.missing_details[1].missing_percentage = 1000
                  /\ report.missing_details[1].severity = "medium"
                  /\ report.severity = "medium"

\* the 100-row table with 10 NULLs in its only flagged column
C6_Witness ==
    /\ ReturnedFrom("check_table_missing_values")
    /\ report.severity = "medium"
    /\ report.total_rows = 100
    /\ Len(report.missing_details) = 1
    /\ report.missing_details[1].null_count = 10

(***************************************************************************)
(* The gap severity function on its own: called once with a gap count and   *)
(* a number of gap-days, the latter a whole number of hours.                *)
(***************************************************************************)
InitGapSeverity ==
    /\ checker = "gaps"
    /\ db = [s \in {"public"} |-> Schema(<<>>, FALSE)]
    /\ pc = "idle"
    /\ call = [entry |-> "none"]
    /\ report = Pending
    /\ schemas = <<>>
    /\ results = <<>>
    /\ tables = <<>>
    /\ schema_analysis = Pending
    /\ queries = <<>>

CalculateGapSeverity ==
    /\ pc = "idle"
    /\ \E total_gaps \in 0..MaxGaps : \E hours \in 0..(24 * MaxGapDays) :
          LET total_gap_days == [num |-> hours, den |-> 24]
          IN  Returned("_calculate_gap_severity",
                       [total_gaps |-> total_gaps, total_gap_days |-> total_gap_days],
                       [severity |-> _calculate_gap_severity(total_gaps, total_gap_days)],
                       <<>>)

\* the data types get_date_columns selects
DateTypes ==
    {"date", "timestamp", "timestamp without time zone", "timestamp with time zone"}

\* column names without any of the words, with one, and with two, in either case
IntervalColumnNames ==
    {"rental_date", "last_update", "week_start", "billing_month", "pickup_hour",
     "HOUR_OF_WEEK", "Month_Of_Week", "Billing_Month"}

DetermineExpectedInterval ==
    /\ pc = "idle"
    /\ \E column_name \in IntervalColumnNames : \E data_type \in DateTypes :
          Returned("_determine_expected_interval",
                   [column_name |-> column_name, data_type |-> data_type],
                   [expected_interval |-> _determine_expected_interval(column_name, data_type)],
                   <<>>)

NextGapSeverity ==
    \/ CalculateGapSeverity
    \/ DetermineExpectedInterval

SpecGapSeverity == InitGapSeverity /\ [][NextGapSeverity]_vars

\* C4: the gap severity is critical iff total_gaps >= 10 or total_gap_days >= 30;
\* otherwise high iff total_gaps >= 5 or total_gap_days >= 7; otherwise medium iff
\* total_gaps >= 2 or total_gap_days >= 3; otherwise low.
C4_GapSeverityThresholds ==
    ReturnedFrom("_calculate_gap_severity") =>
        LET g == call.args.total_gaps
            h == call.args.total_gap_days.num  \* hours: total_gap_days = h / 24
            critical == g >= 10 \/ h >= 30 * 24
            high == ~critical /\ (g >= 5 \/ h >= 7 * 24)
            medium == ~critical /\ ~high /\ (g >= 2 \/ h >= 3 * 24)
        IN  /\ call.args.total_gap_days.den = 24
            /\ (report.severity = "critical") <=> critical
            /\ (report.severity = "high") <=> high
            /\ (report.severity = "medium") <=> medium
            /\ (report.severity = "low") <=> (~critical /\ ~high /\ ~medium)

\* one gap of exactly 30 days: low on the count scale, critical on the days scale
C4_Witness ==
    /\ ReturnedFrom("_calculate_gap_severity")
    /\ call.args.total_gaps = 1
    /\ call.args.total_gap_days = [num |-> 30 * 24, den |-> 24]
    /\ report.severity = "critical"

(***************************************************************************)
(* Properties of the schema scans (under SpecSchema).                       *)
(***************************************************************************)
\* the tables of a schema in the order the enumeration returns them
ScanTables(schema) == IF schema \in DOMAIN db THEN db[schema].tables ELSE <<>>

IsErrorResult(r) == "error" \in DOMAIN r

\* the non-error schema analyses already returned
ReturnedAnalyses ==
    {results[i] : i \in {j \in 1..Len(results) : ~IsErrorResult(results[j])}}

\* the schema analyses of the state: the one the loop is building and the
\* returned ones
Analyses == (IF pc = "for table" THEN {schema_analysis} ELSE {}) \cup ReturnedAnalyses

\* the severity a table entry of a schema analysis is tallied under
TableSeverity(e) ==
    IF checker = "duplicates"
    THEN LET severities == {e.general_duplicates.severity,
                            e.primary_key_duplicates.severity,
                            e.business_key_duplicates.severity}
         IN  IF "error" \in severities THEN "error"
             ELSE MaxSeverity(severities \cap {"low", "medium", "high", "critical"})
    ELSE Get(e, "severity", "low")

HighestTally(a) ==
    IF a.critical_issues > 0 THEN "critical"
    ELSE IF a.high_issues > 0 THEN "high"
    ELSE IF a.medium_issues > 0 THEN "medium"
    ELSE IF a.low_issues > 0 THEN "low"
    ELSE "none"

C8_MissingSchemaTallies ==
    checker = "missing" =>
        \A a \in Analyses :
            LET n == Len(a.table_results)
                e(i) == a.table_results[i]
            IN  /\ a.tables_analyzed = n
                /\ \A i \in 1..n : e(i).table_name = ScanTables(a.schema)[i].table_name
                /\ a.tables_with_missing =
                       Cardinality({i \in 1..n : /\ e(i).severity # "error"
                                                 /\ e(i).columns_with_missing > 0})
                /\ a.critical_issues = Cardinality({i \in 1..n : e(i).severity = "critical"})
                /\ a.high_issues = Cardinality({i \in 1..n : e(i).severity = "high"})
                /\ a.medium_issues = Cardinality({i \in 1..n : e(i).severity = "medium"})
                /\ a.low_issues = Cardinality({i \in 1..n : e(i).severity = "low"})

\* an error table, a critical table and a table flagged at low in one result
C8_Witness ==
    /\ checker = "missing"
    /\ \E a \in ReturnedAnalyses :
          /\ a.tables_analyzed = 3
          /\ a.tables_with_missing = 2
          /\ a.critical_issues = 1 /\ a.low_issues = 1
          /\ a.high_issues = 0 /\ a.medium_issues = 0
          /\ \E i \in 1..3 : a.table_results[i].severity = "error"

\* the three sub-check reports of a table entry of the duplicate scan
SubChecks(e) == {e.general_duplicates, e.primary_key_duplicates, e.business_key_duplicates}

\* C9: in check_schema_duplicates every table entry holds the three sub-check
\* reports and adds one to exactly one tally, that of the maximum of the three
\* severities with info ignored; a table with an error sub-check adds to no tally
\* and not to tables_with_duplicates, and is still appended and counted as analysed.
C9_DuplicateSchemaTallies ==
    checker = "duplicates" =>
        \A a \in Analyses :
            LET n == Len(a.table_results)
                e(i) == a.table_results[i]
                failed(i) == \E dup \in SubChecks(e(i)) : dup.severity = "error"
                worst(i) == MaxSeverity({dup.severity : dup \in SubChecks(e(i))} \ {"info"})
                with_duplicates(i) ==
                    \E dup \in {e(i).general_duplicates, e(i).business_key_duplicates} :
                        Get(dup, "total_duplicate_rows", 0) > 0
            IN  /\ a.tables_analyzed = n
                /\ \A i \in 1..n :
                      /\ e(i).table_name = ScanTables(a.schema)[i].table_name
                      /\ \A dup \in SubChecks(e(i)) : dup.table_name = e(i).table_name
                      /\ "duplicate_details" \in DOMAIN e(i).general_duplicates
                             \/ e(i).general_duplicates.severity = "error"
                      /\ "has_primary_key" \in DOMAIN e(i).primary_key_duplicates
                             \/ e(i).primary_key_duplicates.severity = "error"
                      /\ "has_business_keys" \in DOMAIN e(i).business_key_duplicates
                             \/ e(i).business_key_duplicates.severity = "error"
                /\ a.critical_issues =
                       Cardinality({i \in 1..n : ~failed(i) /\ worst(i) = "critical"})
                /\ a.high_issues = Cardinality({i \in 1..n : ~failed(i) /\ worst(i) = "high"})
                /\ a.medium_issues =
                       Cardinality({i \in 1..n : ~failed(i) /\ worst(i) = "medium"})
                /\ a.low_issues = Cardinality({i \in 1..n : ~failed(i) /\ worst(i) = "low"})
                /\ a.tables_with_duplicates =
                       Cardinality({i \in 1..n : ~failed(i) /\ with_duplicates(i)})

\* a table that is critical by its primary key alone, with general at low, next
\* to a table with a failed sub-check
C9_Witness ==
    /\ checker = "duplicates"
    /\ \E a \in ReturnedAnalyses :
          /\ a.tables_analyzed = 2
          /\ a.critical_issues = 1
          /\ a.high_issues + a.medium_issues + a.low_issues = 0
          /\ \E i, j \in 1..2 :
                /\ a.table_results[i].general_duplicates.severity = "low"
                /\ a.table_results[i].primary_key_duplicates.severity = "critical"
                /\ a.table_results[j].general_duplicates.severity = "error"

\* a query fails while the checker of the behaviour analyses table t
FailureWhileAnalysing(t) ==
    CASE checker = "missing" ->
             \/ t.structure_fails
             \/ \E c \in Range(t.columns) : c.is_nullable = "NO" /\ c.query_fails
      [] checker = "duplicates" ->
             \/ t.structure_fails
             \/ "general" \in t.fails
             \/ t.primary_keys # <<>> /\ "primary_key" \in t.fails
             \/ /\ t.table_name \in DOMAIN DefaultBusinessKeys
                /\ \/ t.fails \cap {"business_key", "row_count"} # {}
                   \/ ~(Range(DefaultBusinessKeys[t.table_name]) \subseteq ColumnNames(t))
      [] checker = "gaps" ->
             \/ "date_columns" \in t.fails
             \/ \E c \in Range(t.date_columns) :
                   c.range_query_fails \/ (c.values # {} /\ c.gap_query_fails)

\* the table entry, or a report inside it, has severity error and a message
HasErrorEntry(e) ==
    LET reports ==
            CASE checker = "missing" -> {e}
              [] checker = "duplicates" -> SubChecks(e)
              [] checker = "gaps" ->
                     {e} \cup (IF "column_analyses" \in DOMAIN e
                               THEN Range(e.column_analyses) ELSE {})
    IN  \E r \in reports : Get(r, "severity", "none") = "error" /\ "error" \in DOMAIN r

\* C10: run_analysis returns one result per requested schema, in order, an error
\* entry where the enumeration failed; every other result has one table entry per
\* enumerated table, in enumeration order, and the entry of a table whose analysis
\* met a failure is an error-severity entry with the failure message.
C10_FailureIsolation ==
    pc = "done" =>
        /\ Len(results) = Len(schemas)
        /\ \A k \in 1..Len(results) :
              LET r == results[k]
                  listed == ScanTables(r.schema)
              IN  /\ r.schema = schemas[k]
                  /\ IsErrorResult(r) <=> (r.schema \in DOMAIN db /\ db[r.schema].list_fails)
                  /\ ~IsErrorResult(r) =>
                        /\ Len(r.table_results) = Len(listed)
                        /\ \A i \in 1..Len(listed) :
                              /\ r.table_results[i].table_name = listed[i].table_name
                              /\ FailureWhileAnalysing(listed[i])
                                     => HasErrorEntry(r.table_results[i])

(***************************************************************************)
(* The contents of the table reports (under SpecTable).                     *)
(***************************************************************************)
\* the column names of a list of columns or of column details
NamesOf(details) == [i \in 1..Len(details) |-> details[i].column_name]

\* the required columns of the called table that hold a NULL, in column order
FlaggedColumns ==
    SelectSeq(CalledTable.columns, LAMBDA c : c.is_nullable = "NO" /\ c.null_count > 0)

\* C11: missing_details of check_table_missing_values holds exactly the required
\* (non-nullable) columns whose NULL count is above 0, in column order, each with
\* that count; a column without NULL and a nullable column never appear, no
\* NULL-count query is issued for a nullable column, and columns_with_missing is
\* the length of missing_details.
C11_MissingDetails ==
    ReturnedFrom("check_table_missing_values") =>
        /\ \A q \in Range(queries) :
               q.query = "null_count" =>
                   \E c \in Range(CalledTable.columns) :
                       c.column_name = q.on /\ c.is_nullable = "NO"
        /\ report.severity # "error" =>
               /\ NamesOf(report.missing_details) = NamesOf(FlaggedColumns)
               /\ \A i \in 1..Len(report.missing_details) :
                      /\ report.missing_details[i].null_count = FlaggedColumns[i].null_count
                      /\ report.missing_details[i].null_count > 0
                      /\ report.missing_details[i].is_nullable = FALSE
               /\ report.columns_with_missing = Len(report.missing_details)

\* a nullable column holding NULLs whose NULL-count query would fail, before a
\* required column that is flagged
C11_Witness ==
    /\ ReturnedFrom("check_table_missing_values")
    /\ Len(CalledTable.columns) = 2
    /\ CalledTable.columns[1].is_nullable = "YES"
    /\ CalledTable.columns[1].null_count > 0
    /\ CalledTable.columns[1].query_fails
    /\ report.severity # "error"
    /\ report.columns_with_missing = 1
    /\ NamesOf(report.missing_details) = <<CalledTable.columns[2].column_name>>
    /\ Query("null_count", CalledTable.columns[2].column_name) \in Range(queries)

\* the required (non-nullable) columns of the called table
RequiredColumns == SelectSeq(CalledTable.columns, LAMBDA c : c.is_nullable = "NO")

GroupedColumns ==
    IF call.args.columns.given THEN call.args.columns.value
    ELSE NamesOf(CalledTable.columns)

\* the values of the grouped columns that more than one row of the called table holds
DuplicatedKeys ==
    {k \in {Project(r, GroupedColumns) : r \in DOMAIN CalledTable.rows} :
        RowsWithKey(CalledTable, GroupedColumns, k) > 1}

\* C13: in a check_table_duplicates report total_duplicate_groups is the number of
\* groups of the grouped columns holding more than one row, total_duplicate_rows is
\* the sum of the sizes of those groups (first occurrences included) and
\* duplicate_percentage is total_duplicate_rows / total_rows x 100 rounded to two
\* decimals (0 when total_rows = 0); hence
\* 2 x total_duplicate_groups <= total_duplicate_rows <= total_rows.
C13_DuplicateCounts ==
    ReturnedFrom("check_table_duplicates") /\ report.severity # "error" =>
        LET sizes == [k \in DuplicatedKeys |-> RowsWithKey(CalledTable, GroupedColumns, k)]
        IN  /\ report.columns_checked = GroupedColumns
            /\ report.total_rows = CalledTable.row_count
            /\ report.total_duplicate_groups = Cardinality(DuplicatedKeys)
            /\ report.total_duplicate_rows = SumOver(DuplicatedKeys, sizes)
            /\ report.duplicate_percentage =
                   (IF report.total_rows = 0 THEN 0
                    ELSE Round2([num |-> 100 * report.total_duplicate_rows,
                                 den |-> report.total_rows]))
            /\ 2 * report.total_duplicate_groups <= report.total_duplicate_rows
            /\ report.total_duplicate_rows <= report.total_rows

\* grouped by three columns, a group of four rows and a group of three among
\* further rows that repeat nothing
C13_Witness ==
    /\ ReturnedFrom("check_table_duplicates")
    /\ call.args.columns.given
    /\ report.severity # "error"
    /\ report.total_duplicate_groups = 2
    /\ report.total_duplicate_rows = 7
    /\ report.total_rows = 27
    /\ report.duplicate_percentage = 2593

\* the mapping a check_business_key_duplicates call used
BusinessKeysUsed ==
    IF call.args.business_keys.given THEN call.args.business_keys.value
    ELSE DefaultBusinessKeys

\* C14: a configuration gap is reported at severity info: the primary-key check of
\* a table without primary key returns has_primary_key = false, duplicate_count = 0
\* and severity info without issuing a group-by query, and the business-key check
\* of a table without key in the mapping returns has_business_keys = false and
\* severity info without issuing any query.
C14_ConfigurationGapsAreInfo ==
    /\ (/\ ReturnedFrom("check_primary_key_duplicates")
        /\ ~CalledTable.structure_fails
        /\ CalledTable.primary_keys = <<>>)
           => /\ report.has_primary_key = FALSE
              /\ report.duplicate_count = 0
              /\ report.severity = "info"
              /\ \A q \in Range(queries) : q.query # "group_by"
    /\ (/\ ReturnedFrom("check_business_key_duplicates")
        /\ call.args.table_name \notin DOMAIN BusinessKeysUsed)
           => /\ report.has_business_keys = FALSE
              /\ report.severity = "info"
              /\ queries = <<>>

\* a table without primary key that holds equal rows and whose group-by query on
\* a primary key would fail
C14_Witness ==
    /\ ReturnedFrom("check_primary_key_duplicates")
    /\ CalledTable.primary_keys = <<>>
    /\ "primary_key" \in CalledTable.fails
    /\ \E r \in DOMAIN CalledTable.rows : CalledTable.rows[r] > 1
    /\ report.severity = "info"
    /\ queries = <<Query("table_structure", CalledTable.table_name)>>

\* a table without key in the caller's mapping whose group-by query on a business
\* key would fail
C14_WitnessBusinessKey ==
    /\ ReturnedFrom("check_business_key_duplicates")
    /\ call.args.business_keys.given
    /\ call.args.table_name \notin DOMAIN call.args.business_keys.value
    /\ "business_key" \in CalledTable.fails
    /\ report.severity = "info"
    /\ queries = <<>>

(***************************************************************************)
(* The granularity of a date column.                                        *)
(***************************************************************************)
\* the column names of the model that hold the word, whatever the case
NamesWith(word) ==
    CASE word = "hour" -> {"pickup_hour", "HOUR_OF_WEEK"}
      [] word = "week" -> {"week_start", "HOUR_OF_WEEK", "Month_Of_Week"}
      [] word = "month" -> {"billing_month", "Month_Of_Week", "Billing_Month"}

\* C15: _determine_expected_interval returns hourly if the lower-cased column name
\* contains 'hour' or the data type is a timestamp type; otherwise weekly if the
\* name contains 'week'; otherwise monthly if it contains 'month'; otherwise
\* daily.  So a timestamp-typed column is hourly even when its name contains
\* 'week' or 'month'.
C15_ExpectedIntervalOrder ==
    ReturnedFrom("_determine_expected_interval") =>
        LET n == call.args.column_name
            hourly == n \in NamesWith("hour") \/ call.args.data_type # "date"
            weekly == ~hourly /\ n \in NamesWith("week")
            monthly == ~hourly /\ ~weekly /\ n \in NamesWith("month")
        IN  /\ (report.expected_interval = "hourly") <=> hourly
            /\ (report.expected_interval = "weekly") <=> weekly
            /\ (report.expected_interval = "monthly") <=> monthly
            /\ (report.expected_interval = "daily") <=> (~hourly /\ ~weekly /\ ~monthly)
            /\ (/\ call.args.data_type # "date"
                /\ n \in NamesWith("week") \cup NamesWith("month"))
                   => report.expected_interval = "hourly"

\* a timestamp column whose name holds 'month' and 'week' but not 'hour'
C15_Witness ==
    /\ ReturnedFrom("_determine_expected_interval")
    /\ call.args.column_name = "Month_Of_Week"
    /\ call.args.data_type = "timestamp without time zone"
    /\ report.expected_interval = "hourly"

\* the column a find_gaps_in_date_column call was about
CalledColumn ==
    CHOOSE c \in Range(CalledTable.date_columns) : c.column_name = call.args.date_column

\* the granularity the name and the type of a date column of the model stand for
InferredInterval(c) ==
    IF c.column_name \in NamesWith("hour") \/ c.data_type # "date" THEN "hourly"
    ELSE IF c.column_name \in NamesWith("week") THEN "weekly"
    ELSE IF c.column_name \in NamesWith("month") THEN "monthly"
    ELSE "daily"

\* C16 as stated: when the caller of find_gaps_in_date_column supplies no
\* granularity, the granularity reported in expected_interval is the one inferred
\* from the column's name and type; a caller-supplied granularity is used unchanged.
C16_AsStated ==
    ReturnedFrom("find_gaps_in_date_column") /\ report.severity # "error" =>
        report.expected_interval =
            (IF call.args.expected_interval.given THEN call.args.expected_interval.value
             ELSE InferredInterval(CalledColumn))

\* C16: when the caller of find_gaps_in_date_column supplies no granularity, the
\* granularity reported in expected_interval is daily whatever the column; a
\* caller-supplied granularity is used unchanged; the granularity inferred from
\* the column's name and type is the one find_gaps_in_table supplies for each of
\* its date columns.
C16_GranularityUsed ==
    /\ ReturnedFrom("find_gaps_in_date_column") /\ report.severity # "error" =>
           report.expected_interval =
               (IF call.args.expected_interval.given THEN call.args.expected_interval.value
                ELSE "daily")
    /\ ReturnedFrom("find_gaps_in_table") /\ "column_analyses" \in DOMAIN report =>
           \A i \in 1..Len(report.column_analyses) :
               report.column_analyses[i].severity # "error" =>
                   report.column_analyses[i].expected_interval =
                       InferredInterval(CalledTable.date_columns[i])

\* a timestamp column analysed without a granularity from the caller
C16_Witness ==
    /\ ReturnedFrom("find_gaps_in_date_column")
    /\ ~call.args.expected_interval.given
    /\ CalledColumn.data_type = "timestamp without time zone"
    /\ report.severity # "error"
    /\ report.expected_interval = "daily"

\* C17: when the minimum or the maximum observed value of a date column is absent
\* (the column holds no non-null value, as in an empty table),
\* find_gaps_in_date_column returns an error result for the column with the message
\* 'No valid dates found in column' and issues no gap-detection query.
C17_NoValidDates ==
    (/\ ReturnedFrom("find_gaps_in_date_column")
     /\ ~CalledColumn.range_query_fails
     /\ CalledColumn.values = {})
        => /\ report.severity = "error"
           /\ report.error = <<"No valid dates found in column">>
           /\ report.date_column = call.args.date_column
           /\ "total_gaps" \notin DOMAIN report
           /\ \A q \in Range(queries) : q.query # "gap"

\* a column without value whose gap query would fail
C17_Witness ==
    /\ ReturnedFrom("find_gaps_in_date_column")
    /\ CalledColumn.values = {}
    /\ CalledColumn.gap_query_fails
    /\ report.error = <<"No valid dates found in column">>
    /\ queries = <<Query("date_range", call.args.date_column)>>

\* a query of the analysis of date column c fails: its range query, or its gap
\* query, which is issued when the range query found a date
ColumnQueryFails(c) ==
    c.range_query_fails \/ (c.values # {} /\ c.gap_query_fails)

\* C18: a query failure during the analysis of one date column, of the date-range
\* query or of the gap-detection query, is recorded in that column's report as
\* severity error together with the failure message, and the reports of the
\* sibling columns of the table are what they are without the failure.
C18_ColumnFailureRecorded ==
    /\ ReturnedFrom("find_gaps_in_date_column") /\ ColumnQueryFails(CalledColumn) =>
           report.severity = "error" /\ "error" \in DOMAIN report
    /\ ReturnedFrom("find_gaps_in_table") /\ "column_analyses" \in DOMAIN report =>
           \A i \in 1..Len(report.column_analyses) :
               LET c == CalledTable.date_columns[i]
                   column_analysis == report.column_analyses[i]
               IN  /\ ColumnQueryFails(c) =>
                          /\ column_analysis.severity = "error"
                          /\ "error" \in DOMAIN column_analysis
                   /\ (~ColumnQueryFails(c) /\ c.values # {}) =>
                          column_analysis.severity # "error"

(***************************************************************************)
(* Tables without data.                                                     *)
(***************************************************************************)
\* a call on a table without any row none of whose queries fails
EmptyTableCalled ==
    /\ pc = "done"
    /\ CASE checker = "missing" ->
               /\ CalledTable.row_count = 0
               /\ ~CalledTable.structure_fails
               /\ \A c \in Range(CalledTable.columns) : ~c.query_fails
         [] checker = "duplicates" ->
               /\ CalledTable.row_count = 0
               /\ ~CalledTable.structure_fails
               /\ CalledTable.fails = {}
         [] checker = "gaps" ->
               /\ CalledTable.fails = {}
               /\ \A c \in Range(CalledTable.date_columns) :
                      c.values = {} /\ ~c.range_query_fails /\ ~c.gap_query_fails

\* a duplicate report without any duplicate
NoDuplicate(r) ==
    /\ r.total_duplicate_groups = 0
    /\ r.total_duplicate_rows = 0
    /\ r.duplicate_percentage = 0
    /\ r.severity = "low"

\* a column report of zero gaps at severity low
NoGap(r) == Get(r, "total_gaps", -1) = 0 /\ r.severity = "low"

\* the error result of a column without date
NoValidDates(r) ==
    /\ r.severity = "error"
    /\ r.error = <<"No valid dates found in column">>
    /\ "total_gaps" \notin DOMAIN r

C19_WitnessDuplicates ==
    /\ EmptyTableCalled
    /\ call.entry = "check_business_key_duplicates"
    /\ report.has_business_keys
    /\ NoDuplicate(report)

(***************************************************************************)
(* Tables without date column (under SpecSchema).                           *)
(***************************************************************************)
\* the table the next iteration of the schema scan analyses
NextScanned ==
    CHOOSE t \in TablesOf(schema_analysis.schema) : t.table_name = Head(tables).table_name

\* the next iteration of find_gaps_in_schema is about a table without date column
WithoutDateColumn ==
    /\ checker = "gaps" /\ pc = "for table" /\ tables # <<>>
    /\ NextScanned.date_columns = <<>>
    /\ "date_columns" \notin NextScanned.fails

\* the report an iteration appended
Appended(analysis) == analysis.table_results[Len(analysis.table_results)]

\* C20: find_gaps_in_table on a table without date/time column returns a report
\* with date_columns_found = 0 and a message, without error and without severity
\* error, and issues no gap query; find_gaps_in_schema counts such a table in
\* tables_analyzed and not in tables_with_gaps.
C20_NoDateColumns ==
    [][WithoutDateColumn =>
          /\ Appended(schema_analysis').table_name = Head(tables).table_name
          /\ Appended(schema_analysis').date_columns_found = 0
          /\ Appended(schema_analysis').message = "No date columns found in table"
          /\ "error" \notin DOMAIN Appended(schema_analysis')
          /\ Get(Appended(schema_analysis'), "severity", "none") # "error"
          /\ \A q \in Range(queries') : q.query \notin {"date_range", "gap"}
          /\ schema_analysis'.tables_analyzed = schema_analysis.tables_analyzed + 1
          /\ schema_analysis'.tables_with_gaps = schema_analysis.tables_with_gaps]_vars

\* a table without date column scanned after a table with one
C20_Witness ==
    /\ checker = "gaps" /\ pc = "for table"
    /\ schema_analysis.tables_analyzed = 2
    /\ "column_analyses" \in DOMAIN schema_analysis.table_results[1]
    /\ Appended(schema_analysis).date_columns_found = 0
    /\ "message" \in DOMAIN Appended(schema_analysis)
    /\ queries = <<Query("date_columns", Appended(schema_analysis).table_name)>>

(***************************************************************************)
(* The gap queries as they are written.                                     *)
(***************************************************************************)
\* the aligned buckets between the first and the last value of date column c
\* that hold no row
EmptyBuckets(c, interval) ==
    generate_series(Bucket(interval, SetMin(c.values)), Bucket(interval, SetMax(c.values)),
                    Step(interval)) \ {Bucket(interval, v) : v \in c.values}

\* a column report without gap
WithoutGap(r) ==
    /\ r.total_gaps = 0
    /\ r.gaps = <<>>
    /\ r.total_gap_days.num = 0
    /\ r.severity = "low"

C26_SchemaRollup ==
    checker = "gaps" /\ schema_analysis # Pending =>
        /\ schema_analysis.tables_with_gaps = 0
        /\ schema_analysis.critical_issues = 0
        /\ schema_analysis.high_issues = 0
        /\ schema_analysis.medium_issues = 0

(***************************************************************************)
(* Count conservation in the schema scans (under SpecSchema).               *)
(***************************************************************************)
\* the table entries of schema analysis a that are error tables
ErrorTables(a) ==
    {i \in 1..Len(a.table_results) : TableSeverity(a.table_results[i]) = "error"}

\* C27: in every schema scan tables_analyzed is the length of table_results, and
\* critical_issues + high_issues + medium_issues + low_issues + (the number of
\* error tables) = tables_analyzed, after each loop iteration for the tables
\* processed so far; in a returned non-error result tables_analyzed = total_tables.
C27_CountConservation ==
    \A a \in Analyses :
        /\ a.tables_analyzed = Len(a.table_results)
        /\ a.critical_issues + a.high_issues + a.medium_issues + a.low_issues
               + Cardinality(ErrorTables(a)) = a.tables_analyzed
        /\ a.total_tables = Len(ScanTables(a.schema))
        /\ a \in ReturnedAnalyses => a.tables_analyzed = a.total_tables
        /\ (pc = "for table" /\ a = schema_analysis) =>
               a.tables_analyzed + Len(tables) = a.total_tables

\* a returned scan of three tables: an error table and tallies under two severities
C27_Witness ==
    \E a \in ReturnedAnalyses :
        /\ a.tables_analyzed = 3
        /\ Cardinality(ErrorTables(a)) = 1
        /\ a.low_issues = 1
        /\ a.critical_issues + a.high_issues + a.medium_issues = 1

\* C28: in check_schema_duplicates every table tallied above low is also counted
\* as a table with duplicates: critical_issues + high_issues + medium_issues <=
\* tables_with_duplicates <= tables_analyzed, also for a table whose only finding
\* is a primary-key collision between rows that differ in another column.
C28_TablesWithDuplicates ==
    checker = "duplicates" =>
        \A a \in Analyses :
            /\ a.critical_issues + a.high_issues + a.medium_issues <= a.tables_with_duplicates
            /\ a.tables_with_duplicates <= a.tables_analyzed

\* the upper bound alone
C28_UpperBound ==
    checker = "duplicates" =>
        \A a \in Analyses : a.tables_with_duplicates <= a.tables_analyzed

(***************************************************************************)
(* A failing NULL-count query.                                              *)
(***************************************************************************)
\* the positions of the required columns of the called table whose NULL-count
\* query fails
FailingColumns ==
    {i \in 1..Len(CalledTable.columns) :
        CalledTable.columns[i].is_nullable = "NO" /\ CalledTable.columns[i].query_fails}

\* the NULL-count queries on the required columns among the first n columns
RequiredQueriesUpTo(n) ==
    LET required == SelectSeq(SubSeq(CalledTable.columns, 1, n),
                              LAMBDA c : c.is_nullable = "NO")
    IN  [i \in 1..Len(required) |-> Query("null_count", required[i].column_name)]

\* C29: in check_table_missing_values, if the NULL-count query of a required column
\* fails, the table report is an error entry holding only table_name, schema, error
\* and severity = error: the details collected for the columns before it are
\* discarded, the columns after it are not queried, and the report has no
\* missing_details, columns_with_missing or total_rows field.
C29_FailedNullCountQuery ==
    (/\ ReturnedFrom("check_table_missing_values")
     /\ ~CalledTable.structure_fails
     /\ FailingColumns # {})
        => /\ DOMAIN report = {"table_name", "schema", "error", "severity"}
           /\ report.severity = "error"
           /\ report.table_name = call.args.table_name
           /\ report.schema = call.args.schema
           /\ report.error =
                  <<"query failed", CalledTable.columns[SetMin(FailingColumns)].column_name>>
           /\ queries = <<Query("table_structure", call.args.table_name)>>
                            \o RequiredQueriesUpTo(SetMin(FailingColumns))

\* a required column holding NULLs checked before the column whose query fails
C29_Witness ==
    /\ ReturnedFrom("check_table_missing_values")
    /\ FailingColumns = {2}
    /\ CalledTable.columns[1].is_nullable = "NO"
    /\ CalledTable.columns[1].null_count > 0
    /\ report.severity = "error"
    /\ Len(queries) = 3

\* the column whose query fails checked before a required column holding NULLs
C29_WitnessNotQueried ==
    /\ ReturnedFrom("check_table_missing_values")
    /\ FailingColumns = {1}
    /\ Len(CalledTable.columns) = 2
    /\ CalledTable.columns[2].is_nullable = "NO"
    /\ CalledTable.columns[2].null_count > 0
    /\ report.severity = "error"
    /\ Len(queries) = 2

(***************************************************************************)
(* The connector: every statement runs inside the get_cursor context        *)
(* manager of one DatabaseConnector.                                        *)
(***************************************************************************)
MaxStatements == 3   \* statements executed on one connector

\* one operation on the connection or its cursor, and how it ended
Did(operation, outcome) == [operation |-> operation, outcome |-> outcome]

\* execute_query, execute_query_dict and execute_command
StatementEntries == {"execute_query", "execute_query_dict", "execute_command"}

\* how the body of the with-block ends
Bodies == {"completes", "execute raises", "fetchall raises"}

\* connect(): a connection from the first strategy that works, or the last
\* error once every strategy has failed
connect(connect_fails) ==
    IF connect_fails THEN <<Did("connect", "raises")>> ELSE <<Did("connect", "ok")>>

\* the body of the with-block: execute, and fetchall for the two queries
with_body(entry, body) ==
    CASE body = "execute raises" -> <<Did("execute", "raises")>>
      [] body = "fetchall raises" -> <<Did("execute", "ok"), Did("fetchall", "raises")>>
      [] OTHER -> IF entry = "execute_command"
                  THEN <<Did("execute", "ok")>>
                  ELSE <<Did("execute", "ok"), Did("fetchall", "ok")>>

\* a changed get_cursor: the except clause re-raises without a rollback
Mutant_after_yield_without_rollback(body_raised, commit_fails) ==
    IF body_raised THEN <<>>
    ELSE IF commit_fails THEN <<Did("commit", "raises")>>
    ELSE <<Did("commit", "ok")>>

\* get_cursor after the yield: the commit at the end of the try block, the
\* rollback of the except clause (which also catches a failing commit)
after_yield(body_raised, commit_fails) ==
    IF body_raised THEN <<Did("rollback", "ok")>>
    ELSE IF commit_fails THEN <<Did("commit", "raises"), Did("rollback", "ok")>>
    ELSE <<Did("commit", "ok")>>

\* everything get_cursor does around one with-block, in order
get_cursor(_connection, connect_fails, entry, body, commit_fails) ==
    LET opening == IF _connection \in {"none", "closed"} THEN connect(connect_fails)
                   ELSE <<>>
    IN  IF opening # <<>> /\ connect_fails
        THEN opening
        ELSE opening \o <<Did("cursor", "ok")>> \o with_body(entry, body)
                \o after_yield(body # "completes", commit_fails)
                \o <<Did("close", "ok")>>

\* the transaction of the session after one operation: psycopg2 opens it with
\* the first execute, an error aborts it, commit and rollback end it
transaction_step(transaction, did) ==
    CASE did.operation = "connect" /\ did.outcome = "ok" -> "idle"
      [] did.operation = "execute" /\ did.outcome = "ok" ->
            IF transaction = "aborted" THEN "aborted" ELSE "active"
      [] did.operation = "execute" /\ did.outcome = "raises" -> "aborted"
      [] did.operation = "fetchall" /\ did.outcome = "raises" ->
            IF transaction = "aborted" THEN "aborted" ELSE "active"
      [] did.operation \in {"commit", "rollback"} -> "idle"
      [] OTHER -> transaction

RECURSIVE transaction_after(_, _)
transaction_after(transaction, operations) ==
    IF operations = <<>> THEN transaction
    ELSE transaction_after(transaction_step(transaction, Head(operations)),
                           Tail(operations))

\* the exception the caller of the statement sees, if any
raised_by(operations) ==
    LET failed == SelectSeq(operations, LAMBDA d : d.outcome = "raises")
    IN  IF failed = <<>> THEN <<>> ELSE <<Head(failed).operation>>

InitConnector ==
    /\ checker = [_connection |-> "none"]
    /\ db = [transaction |-> "idle"]
    /\ pc = "idle"
    /\ call = [entry |-> "none"]
    /\ report = Pending
    /\ schemas = <<>>
    /\ results = <<>>
    /\ tables = <<>>
    /\ schema_analysis = Pending
    /\ queries = <<>>

\* one statement: a statement on an aborted transaction can only fail
Statement(entry) ==
    /\ Len(results) < MaxStatements
    /\ \E connect_fails \in BOOLEAN : \E body \in Bodies : \E commit_fails \in BOOLEAN :
          /\ entry = "execute_command" => body # "fetchall raises"
          /\ (db.transaction = "aborted" /\ checker._connection = "open")
                => body = "execute raises"
          /\ call' = [entry |-> entry, _connection |-> checker._connection]
          /\ queries' = get_cursor(checker._connection, connect_fails, entry, body,
                                   commit_fails)
          /\ checker' = [_connection |->
                            IF Did("connect", "ok") \in Range(queries') THEN "open"
                            ELSE checker._connection]
          /\ db' = [transaction |-> transaction_after(db.transaction, queries')]
          /\ report' = [raised |-> raised_by(queries')]
          /\ results' = Append(results, report')
    /\ UNCHANGED <<pc, schemas, tables, schema_analysis>>

ExecuteQuery == Statement("execute_query")

ExecuteQueryDict == Statement("execute_query_dict")

ExecuteCommand == Statement("execute_command")

\* close(): closes an open connection, and with it whatever transaction it had
Close ==
    /\ checker._connection = "open"
    /\ call' = [entry |-> "close", _connection |-> checker._connection]
    /\ queries' = <<Did("close_connection", "ok")>>
    /\ checker' = [_connection |-> "closed"]
    /\ db' = [transaction |-> "idle"]
    /\ report' = [raised |-> <<>>]
    /\ UNCHANGED <<pc, schemas, results, tables, schema_analysis>>

NextConnector ==
    \/ ExecuteQuery
    \/ ExecuteQueryDict
    \/ ExecuteCommand
    \/ Close

SpecConnector == InitConnector /\ [][NextConnector]_vars

\* how often the last statement did an operation
Count(operation) ==
    Cardinality({i \in DOMAIN queries : queries[i].operation = operation})

\* the last call was a statement whose with-block was entered
StatementExecuted ==
    /\ call.entry \in StatementEntries
    /\ Did("cursor", "ok") \in Range(queries)

\* the body of the last statement raised
BodyRaised ==
    \E i \in DOMAIN queries :
        queries[i].operation \in {"execute", "fetchall"} /\ queries[i].outcome = "raises"

\* a connection is opened only when none is open, and the cursor is closed last
OpenedWhenNeeded ==
    /\ (Count("connect") > 0) <=> (call._connection \in {"none", "closed"})
    /\ Count("connect") <= 1
    /\ Count("close") = 1
    /\ queries[Len(queries)] = Did("close", "ok")

\* C25 as stated: after a body that completes one commit and no rollback,
\* after a body that raises one rollback, no commit and the exception of the
\* body re-raised; the cursor closed, and no transaction left open or aborted.
C25_AsStated ==
    StatementExecuted =>
        /\ OpenedWhenNeeded
        /\ ~BodyRaised => Count("commit") = 1 /\ Count("rollback") = 0
        /\ BodyRaised => /\ Count("rollback") = 1 /\ Count("commit") = 0
                         /\ report.raised \in {<<"execute">>, <<"fetchall">>}
        /\ db.transaction = "idle"

\* C25: every statement executed through get_cursor opens a connection only
\* when none is open; after a body that completes exactly one commit is
\* performed, with no rollback unless the commit itself raises; after the body
\* or the commit raises exactly one rollback follows, no further commit, and
\* the exception is re-raised; the cursor is closed in every case and no
\* transaction is left open or aborted for the next statement.
C25_CommitInsideTry ==
    StatementExecuted =>
        /\ OpenedWhenNeeded
        /\ ~BodyRaised =>
              /\ Count("commit") = 1
              /\ \/ /\ Did("commit", "ok") \in Range(queries)
                    /\ Count("rollback") = 0
                    /\ report.raised = <<>>
                 \/ /\ Did("commit", "raises") \in Range(queries)
                    /\ Count("rollback") = 1
                    /\ queries[Len(queries) - 1] = Did("rollback", "ok")
                    /\ report.raised = <<"commit">>
        /\ BodyRaised => /\ Count("rollback") = 1 /\ Count("commit") = 0
                         /\ report.raised \in {<<"execute">>, <<"fetchall">>}
        /\ db.transaction = "idle"

\* a statement failed, and the next one on the same connection succeeded
C25_Witness ==
    /\ StatementExecuted
    /\ call._connection = "open"
    /\ Len(results) >= 2
    /\ results[Len(results) - 1].raised = <<"execute">>
    /\ report.raised = <<>>
    /\ Count("connect") = 0

\* the commit of a completed body raised, and the rollback followed
C25_WitnessCommitRaised ==
    /\ StatementExecuted
    /\ ~BodyRaised
    /\ report.raised = <<"commit">>
    /\ Count("rollback") = 1

(***************************************************************************)
(* The schema-level entry points run to their return.                       *)
(***************************************************************************)
RECURSIVE schema_loop(_, _, _, _)
\* for table in tables: the loop of a schema scan, to its end
schema_loop(c, analysis, table_list, schema) ==
    IF table_list = <<>> THEN analysis
    ELSE schema_loop(c,
                     CASE c = "missing" -> missing_table_step(analysis, Head(table_list), schema)
                       [] c = "duplicates" ->
                              duplicate_table_step(analysis, Head(table_list), schema)
                       [] c = "gaps" -> gap_table_step(analysis, Head(table_list), schema),
                     Tail(table_list), schema)

\* check_schema_missing_values, check_schema_duplicates, find_gaps_in_schema
schema_scan(c, schema) ==
    LET listed == get_tables_by_schema(schema)
    IN  IF listed.raised THEN schema_error_result(schema, listed.error)
        ELSE schema_loop(c,
                         CASE c = "missing" -> missing_schema_analysis(schema, listed.value)
                           [] c = "duplicates" ->
                                  duplicate_schema_analysis(schema, listed.value)
                           [] c = "gaps" -> gap_schema_analysis(schema, listed.value),
                         listed.value, schema)

(***************************************************************************)
(* The driver: main() with its parsed arguments and its configuration.      *)
(***************************************************************************)
\* a table every checker can analyse: a pair of equal rows among 40, and a
\* date column with days 1 and 3
DriverTable(table_name) ==
    [table_name |-> table_name, structure_fails |-> FALSE, row_count |-> 40,
     columns |-> FourColumns, primary_keys |-> <<"id">>,
     rows |-> RowsOf({Row(1, "a")}, 2), unique_rows |-> 38,
     date_columns |-> <<DateColumn("rental_date", "date",
                                   {MinutesPerDay, 3 * MinutesPerDay}, FALSE, FALSE)>>,
     fails |-> {}]

\* x or default
Or(x, default) == IF x.given THEN x ELSE default

\* --check-missing, --check-duplicates, --find-gaps, --generate-report,
\* --schema and --table; default_schema and default_table of the configuration
DriverArguments ==
    [schema : {NoArgument, Argument("public"), Argument("sales")},
     table : {NoArgument, Argument("staff"), Argument("rental")},
     check_missing : BOOLEAN, check_duplicates : BOOLEAN, find_gaps : BOOLEAN,
     generate_report : BOOLEAN]

DriverConfigurations ==
    [default_schema : {Argument("public")}, default_table : {NoArgument, Argument("staff")}]

InitDriver ==
    /\ checker = "none"
    /\ db = [s \in {"public", "sales"} |->
                IF s = "public" THEN Schema(<<DriverTable("staff")>>, FALSE)
                ELSE Schema(<<DriverTable("rental")>>, FALSE)]
    /\ pc = "check missing"
    /\ call \in [entry : {"main"}, args : DriverArguments, config : DriverConfigurations]
    /\ report = Pending
    /\ schemas = <<>>
    /\ results = <<>>
    /\ tables = <<>>
    /\ schema_analysis = Pending
    /\ queries = <<>>

schema_name == Or(call.args.schema, call.config.default_schema)
table_name == Or(call.args.table, call.config.default_table)

\* one entry point called from main: what it was called with and returned
Called(entry, args, value) == [entry |-> entry, args |-> args, report |-> value]

\* one if-block of main: skipped, or the checker built and its entry point called
DriverStep(selected, made, next) ==
    /\ IF selected \/ call.args.generate_report
       THEN /\ results' = Append(results, made)
            /\ report' = made.report
       ELSE UNCHANGED <<results, report>>
    /\ pc' = next
    /\ UNCHANGED <<checker, db, call, schemas, tables, schema_analysis, queries>>

MainCheckMissing ==
    /\ pc = "check missing"
    /\ DriverStep(call.args.check_missing,
                  IF table_name.given
                  THEN Called("check_table_missing_values",
                              [table_name |-> table_name.value, schema |-> schema_name.value],
                              check_table_missing_values(table_name.value, schema_name.value))
                  ELSE Called("check_schema_missing_values",
                              [schema |-> schema_name.value],
                              schema_scan("missing", schema_name.value)),
                  "check duplicates")

\* the table-level calls pass schema_name first and table_name second
MainCheckDuplicates ==
    /\ pc = "check duplicates"
    /\ DriverStep(call.args.check_duplicates,
                  IF table_name.given
                  THEN Called("check_table_duplicates",
                              [table_name |-> schema_name.value, schema |-> table_name.value],
                              check_table_duplicates(schema_name.value, table_name.value,
                                                     NoArgument))
                  ELSE Called("check_schema_duplicates",
                              [schema |-> schema_name.value],
                              schema_scan("duplicates", schema_name.value)),
                  "find gaps")

MainFindGaps ==
    /\ pc = "find gaps"
    /\ DriverStep(call.args.find_gaps,
                  IF table_name.given
                  THEN Called("find_gaps_in_table",
                              [table_name |-> schema_name.value, schema |-> table_name.value],
                              find_gaps_in_table(schema_name.value, table_name.value))
                  ELSE Called("find_gaps_in_schema",
                              [schema |-> schema_name.value],
                              schema_scan("gaps", schema_name.value)),
                  "done")

NextDriver ==
    \/ MainCheckMissing
    \/ MainCheckDuplicates
    \/ MainFindGaps

SpecDriver == InitDriver /\ [][NextDriver]_vars

TableEntryPoints ==
    {"check_table_missing_values", "check_table_duplicates", "find_gaps_in_table"}

SchemaEntryPoints ==
    {"check_schema_missing_values", "check_schema_duplicates", "find_gaps_in_schema"}

\* the calls main has made are the calls of the entry points in entries
CallsOf(entries) == {i \in DOMAIN results : results[i].entry \in entries}

\* C30: with a table selected every table-level entry point main calls gets
\* the table name as its table argument and the schema name as its schema
\* argument; with no table selected every call is of a schema-level entry
\* point with the schema name.
C30_TableAndSchemaArguments ==
    call.entry = "main" =>
        IF table_name.given
        THEN /\ CallsOf(TableEntryPoints) = DOMAIN results
             /\ \A i \in DOMAIN results :
                   /\ results[i].args.table_name = table_name.value
                   /\ results[i].args.schema = schema_name.value
        ELSE /\ CallsOf(SchemaEntryPoints) = DOMAIN results
             /\ \A i \in DOMAIN results : results[i].args.schema = schema_name.value

\* the calls of the missing-value checker, and every schema-level call, get
\* their arguments in the order of the signature
C30_MissingAndSchemaLevel ==
    call.entry = "main" =>
        \A i \in CallsOf(SchemaEntryPoints \cup {"check_table_missing_values"}) :
            /\ results[i].args.schema = schema_name.value
            /\ results[i].entry \in TableEntryPoints =>
                  results[i].args.table_name = table_name.value

\* the duplicate check of table staff in schema public reports on a table
\* public that it cannot find
C30_WrongTableAnalysed ==
    /\ pc = "find gaps"
    /\ table_name = Argument("staff")
    /\ results # <<>>
    /\ results[Len(results)].entry = "check_table_duplicates"
    /\ IsErrorResult(report)

(***************************************************************************)
(* The report formatters and the critical issues finder.  A report is the   *)
(* list of its lines, in the order "\n".join puts them; a line is the       *)
(* literal it starts with and the values formatted into it.                 *)
(***************************************************************************)
Text(literal) == [line |-> literal]

Line(literal, with) == [line |-> literal, with |-> with]

\* "=" * 80 and "-" * 40
Rule(character, times) == [line |-> character, times |-> times]

\* str.upper() of a severity
upper(severity) ==
    CASE severity = "critical" -> "CRITICAL"
      [] severity = "high" -> "HIGH"
      [] severity = "medium" -> "MEDIUM"
      [] severity = "low" -> "LOW"
      [] severity = "info" -> "INFO"
      [] severity = "error" -> "ERROR"

\* the first four lines of every report
report_header(title) == <<Rule("=", 80), Text(title), Rule("=", 80), Text("")>>

ReportTitle(c) ==
    CASE c = "missing" -> "MISSING VALUE ANALYSIS REPORT"
      [] c = "duplicates" -> "DUPLICATE RECORD ANALYSIS REPORT"
      [] c = "gaps" -> "DATE GAP ANALYSIS REPORT"

\* the count of tables with findings, as each report labels it
tables_with_line(c, schema_result) ==
    CASE c = "missing" ->
             Line("Tables with missing values: ", [value |-> schema_result.tables_with_missing])
      [] c = "duplicates" ->
             Line("Tables with duplicates: ", [value |-> schema_result.tables_with_duplicates])
      [] c = "gaps" ->
             Line("Tables with gaps: ", [value |-> schema_result.tables_with_gaps])

\* Summary by severity: a line for each count above 0
severity_lines(schema_result) ==
    (IF schema_result.critical_issues > 0
     THEN <<Line("  CRITICAL issues: ", [value |-> schema_result.critical_issues])>> ELSE <<>>)
    \o (IF schema_result.high_issues > 0
        THEN <<Line("  HIGH issues: ", [value |-> schema_result.high_issues])>> ELSE <<>>)
    \o (IF schema_result.medium_issues > 0
        THEN <<Line("  MEDIUM issues: ", [value |-> schema_result.medium_issues])>> ELSE <<>>)
    \o (IF schema_result.low_issues > 0
        THEN <<Line("  LOW issues: ", [value |-> schema_result.low_issues])>> ELSE <<>>)

\* total_critical += ... and the like, each under its if
add_issues(totals, schema_result) ==
    [totals EXCEPT
        !.critical = IF schema_result.critical_issues > 0
                     THEN @ + schema_result.critical_issues ELSE @,
        !.high = IF schema_result.high_issues > 0 THEN @ + schema_result.high_issues ELSE @,
        !.medium = IF schema_result.medium_issues > 0
                   THEN @ + schema_result.medium_issues ELSE @,
        !.low = IF schema_result.low_issues > 0 THEN @ + schema_result.low_issues ELSE @]

\* the lines of a schema result up to its tables
schema_header(c, schema_result) ==
    <<Line("SCHEMA: ", [schema |-> schema_result.schema]),
      Rule("-", 40),
      Line("Tables analyzed: ", [value |-> schema_result.tables_analyzed]),
      tables_with_line(c, schema_result),
      Text("")>>
    \o severity_lines(schema_result) \o <<Text("")>>

\* a table result printed whether or not a column has missing values
Mutant_missing_table_lines_for_every_table(table_result) ==
    IF Get(table_result, "severity", "none") = "error"
    THEN <<Line("  ERROR in table ",
                [table_name |-> table_result.table_name, error |-> table_result.error])>>
    ELSE <<Line("  Table: ", [table_name |-> table_result.table_name,
                             severity |-> upper(table_result.severity)]),
           Line("    Total rows: ", [value |-> table_result.total_rows]),
           Line("    Columns with missing values: ",
                [value |-> table_result.columns_with_missing]),
           Text("")>>

\* generate_missing_data_report: the lines of one table result
missing_table_lines(table_result) ==
    IF Get(table_result, "severity", "none") = "error"
    THEN <<Line("  ERROR in table ",
                [table_name |-> table_result.table_name, error |-> table_result.error])>>
    ELSE IF table_result.columns_with_missing > 0
    THEN <<Line("  Table: ", [table_name |-> table_result.table_name,
                             severity |-> upper(table_result.severity)]),
           Line("    Total rows: ", [value |-> table_result.total_rows]),
           Line("    Columns with missing values: ",
                [value |-> table_result.columns_with_missing])>>
         \o [i \in 1..Len(table_result.missing_details) |->
                Line("    - ",
                     [column_name |-> table_result.missing_details[i].column_name,
                      null_count |-> table_result.missing_details[i].null_count,
                      missing_percentage |->
                          table_result.missing_details[i].missing_percentage])]
         \o <<Text("")>>
    ELSE <<>>

\* generate_duplicate_report: the lines of one table result
duplicate_table_lines(table_result) ==
    LET pk_dup == table_result.primary_key_duplicates
        bk_dup == table_result.business_key_duplicates
        general_dup == table_result.general_duplicates
        pk_lines ==
            IF Get(pk_dup, "severity", "none") = "critical"
            THEN <<Line("  Table: ", [table_name |-> table_result.table_name,
                                      finding |-> "CRITICAL: Primary key duplicates found!"]),
                   Line("    Primary keys: ", [keys |-> Get(pk_dup, "primary_keys", <<>>)]),
                   Line("    Duplicate groups: ", [value |-> Get(pk_dup, "duplicate_count", 0)])>>
            ELSE <<>>
        bk_lines ==
            IF Get(bk_dup, "total_duplicate_rows", 0) > 0
            THEN <<Line("  Table: ", [table_name |-> table_result.table_name,
                                      severity |-> upper(Get(bk_dup, "severity", "low")),
                                      finding |-> "Business key duplicates"]),
                   Line("    Business keys: ",
                        [keys |-> Get(bk_dup, "business_keys_checked", <<>>)]),
                   Line("    Duplicate rows: ",
                        [value |-> Get(bk_dup, "total_duplicate_rows", 0),
                         percentage |-> bk_dup.duplicate_percentage])>>
            ELSE <<>>
        general_lines ==
            IF Get(general_dup, "total_duplicate_rows", 0) > 0
            THEN <<Line("  Table: ", [table_name |-> table_result.table_name,
                                      severity |-> upper(Get(general_dup, "severity", "low")),
                                      finding |-> "General duplicates"]),
                   Line("    Duplicate rows: ",
                        [value |-> Get(general_dup, "total_duplicate_rows", 0),
                         percentage |-> general_dup.duplicate_percentage])>>
            ELSE <<>>
        has_issues == pk_lines # <<>> \/ bk_lines # <<>> \/ general_lines # <<>>
    IN  pk_lines \o bk_lines \o general_lines \o (IF has_issues THEN <<Text("")>> ELSE <<>>)

RECURSIVE gap_column_lines(_)
\* three lines for each column analysis with a gap
gap_column_lines(column_analyses) ==
    IF column_analyses = <<>> THEN <<>>
    ELSE LET column_analysis == Head(column_analyses)
         IN  (IF Get(column_analysis, "total_gaps", 0) > 0
              THEN <<Line("    - ", [date_column |-> column_analysis.date_column,
                                     gaps |-> column_analysis.total_gaps]),
                     Line("      Expected interval: ",
                          [value |-> column_analysis.expected_interval]),
                     Line("      Date range: ",
                          [min_date |-> column_analysis.date_range.min_date,
                           max_date |-> column_analysis.date_range.max_date])>>
              ELSE <<>>)
             \o gap_column_lines(Tail(column_analyses))

\* generate_gap_report: the lines of one table result
gap_table_lines(table_result) ==
    IF Get(table_result, "severity", "none") = "error"
    THEN <<Line("  ERROR in table ",
                [table_name |-> table_result.table_name, error |-> table_result.error])>>
    ELSE IF Get(table_result, "total_gaps", 0) > 0
    THEN <<Line("  Table: ", [table_name |-> table_result.table_name,
                             severity |-> upper(table_result.severity)]),
           Line("    Date columns analyzed: ", [value |-> table_result.date_columns_found]),
           Line("    Total gaps found: ", [value |-> table_result.total_gaps])>>
         \o gap_column_lines(table_result.column_analyses)
         \o <<Text("")>>
    ELSE <<>>

table_lines(c, table_result) ==
    CASE c = "missing" -> missing_table_lines(table_result)
      [] c = "duplicates" -> duplicate_table_lines(table_result)
      [] c = "gaps" -> gap_table_lines(table_result)

RECURSIVE table_results_lines(_, _)
\* for table_result in schema_result['table_results']
table_results_lines(c, table_results) ==
    IF table_results = <<>> THEN <<>>
    ELSE table_lines(c, Head(table_results)) \o table_results_lines(c, Tail(table_results))

RECURSIVE sum_total_gaps(_)
\* total_gaps += table_result['total_gaps'], for the tables printed with gaps
sum_total_gaps(table_results) ==
    IF table_results = <<>> THEN 0
    ELSE (IF Get(Head(table_results), "severity", "none") # "error"
             /\ Get(Head(table_results), "total_gaps", 0) > 0
          THEN Head(table_results).total_gaps ELSE 0)
         + sum_total_gaps(Tail(table_results))

\* the message under the totals, after its sign
AdviceMessages(c) ==
    CASE c = "missing" ->
             [critical |-> "CRITICAL: Immediate attention required!",
              high |-> "HIGH: Priority attention recommended",
              medium |-> "MEDIUM: Review recommended",
              none |-> "No critical or high priority issues found"]
      [] c = "duplicates" ->
             [critical |-> "CRITICAL: Primary key duplicates found - immediate action required!",
              high |-> "HIGH: Significant duplicate data detected",
              medium |-> "MEDIUM: Some duplicate data found",
              none |-> "No significant duplicate issues found"]
      [] c = "gaps" ->
             [critical |-> "CRITICAL: Large date gaps detected - data continuity issues!",
              high |-> "HIGH: Significant date gaps found",
              medium |-> "MEDIUM: Some date gaps detected",
              none |-> "No significant date gaps found"]

\* the chain asking for a high total before a critical one
Mutant_overall_advice_high_first(c, totals) ==
    IF totals.high > 0 THEN AdviceMessages(c).high
    ELSE IF totals.critical > 0 THEN AdviceMessages(c).critical
    ELSE IF totals.medium > 0 THEN AdviceMessages(c).medium
    ELSE AdviceMessages(c).none

\* if total_critical > 0 ... elif total_high > 0 ... elif total_medium > 0 ... else
overall_advice(c, totals) ==
    IF totals.critical > 0 THEN AdviceMessages(c).critical
    ELSE IF totals.high > 0 THEN AdviceMessages(c).high
    ELSE IF totals.medium > 0 THEN AdviceMessages(c).medium
    ELSE AdviceMessages(c).none

\* OVERALL SUMMARY: the totals, and the advice after an empty line
overall_summary(c, totals, total_gaps) ==
    <<Rule("=", 80), Text("OVERALL SUMMARY"), Rule("=", 80)>>
    \o (IF c = "gaps" THEN <<Line("Total gaps found: ", [value |-> total_gaps])>> ELSE <<>>)
    \o <<Line("Critical issues: ", [value |-> totals.critical]),
         Line("High issues: ", [value |-> totals.high]),
         Line("Medium issues: ", [value |-> totals.medium]),
         Line("Low issues: ", [value |-> totals.low]),
         Text(""),
         Line("advice", [message |-> overall_advice(c, totals)])>>

RECURSIVE report_loop(_, _, _)
\* for schema_result in analysis_results: an error entry yields its ERROR line
\* and nothing else; any other entry its lines and its counts
report_loop(c, analysis_results, acc) ==
    IF analysis_results = <<>> THEN acc
    ELSE LET schema_result == Head(analysis_results)
         IN  report_loop(c, Tail(analysis_results),
                 IF IsErrorResult(schema_result)
                 THEN [acc EXCEPT !.lines =
                          @ \o <<Line("ERROR in schema ",
                                      [schema |-> schema_result.schema,
                                       error |-> schema_result.error]),
                                 Text("")>>]
                 ELSE [lines |-> acc.lines \o schema_header(c, schema_result)
                                    \o table_results_lines(c, schema_result.table_results)
                                    \o <<Text("")>>,
                       totals |-> add_issues(acc.totals, schema_result),
                       total_gaps |->
                           IF c = "gaps"
                           THEN acc.total_gaps + sum_total_gaps(schema_result.table_results)
                           ELSE acc.total_gaps])

\* the lines of a report, header to advice
report_lines(c, analysis_results) ==
    LET loop == report_loop(c, analysis_results,
                            [lines |-> report_header(ReportTitle(c)),
                             totals |-> [critical |-> 0, high |-> 0, medium |-> 0, low |-> 0],
                             total_gaps |-> 0])
    IN  loop.lines \o overall_summary(c, loop.totals, loop.total_gaps)

generate_missing_data_report(analysis_results) == report_lines("missing", analysis_results)

generate_duplicate_report(analysis_results) == report_lines("duplicates", analysis_results)

generate_gap_report(analysis_results) == report_lines("gaps", analysis_results)

\* a finder that reports the tables at high as well
Mutant_is_critical_or_high(table_result) ==
    Get(table_result, "severity", "none") \in {"critical", "high"}

\* table_result.get('severity') == 'critical'
is_critical(table_result) == Get(table_result, "severity", "none") = "critical"

RECURSIVE critical_tables(_, _)
\* the entries of one schema result
critical_tables(schema, table_results) ==
    IF table_results = <<>> THEN <<>>
    ELSE LET table_result == Head(table_results)
         IN  (IF is_critical(table_result)
              THEN <<[schema |-> schema,
                      table |-> table_result.table_name,
                      total_rows |-> table_result.total_rows,
                      missing_columns |-> table_result.columns_with_missing,
                      details |-> table_result.missing_details]>>
              ELSE <<>>)
             \o critical_tables(schema, Tail(table_results))

RECURSIVE find_critical_missing_data(_)
find_critical_missing_data(analysis_results) ==
    IF analysis_results = <<>> THEN <<>>
    ELSE (IF IsErrorResult(Head(analysis_results)) THEN <<>>
          ELSE critical_tables(Head(analysis_results).schema,
                               Head(analysis_results).table_results))
         \o find_critical_missing_data(Tail(analysis_results))

(***************************************************************************)
(* run_analysis runs as above; once it has returned its results the caller  *)
(* formats them or asks for the critical issues.                            *)
(***************************************************************************)
MaxReportTables == 2   \* tables of the schema public when its results are formatted

\* public with up to MaxReportTables tables, or failing to list them
ReportedSchemas(c) ==
    {Schema(ts, FALSE) : ts \in UNION {TableLists(c, n) : n \in 0..MaxReportTables}}
    \cup {Schema(<<>>, TRUE)}

InitReport ==
    /\ checker \in Checkers
    /\ db \in {[s \in {"public", "sales"} |-> IF s = "public" THEN p ELSE q] :
                  p \in ReportedSchemas(checker), q \in SalesSchemas(checker)}
    /\ pc = "idle"
    /\ call = [entry |-> "none"]
    /\ report = Pending
    /\ schemas = <<>>
    /\ results = <<>>
    /\ tables = <<>>
    /\ schema_analysis = Pending
    /\ queries = <<>>

\* a function of the results called on them; the results are not written to
CalledOnResults(entry, value) ==
    /\ pc = "done"
    /\ call' = [entry |-> entry, args |-> [analysis_results |-> results]]
    /\ report' = value
    /\ UNCHANGED <<checker, db, pc, schemas, results, tables, schema_analysis, queries>>

GenerateMissingDataReport ==
    /\ checker = "missing"
    /\ CalledOnResults("generate_missing_data_report",
                       [text |-> generate_missing_data_report(results)])

GenerateDuplicateReport ==
    /\ checker = "duplicates"
    /\ CalledOnResults("generate_duplicate_report",
                       [text |-> generate_duplicate_report(results)])

GenerateGapReport ==
    /\ checker = "gaps"
    /\ CalledOnResults("generate_gap_report", [text |-> generate_gap_report(results)])

FindCriticalMissingData ==
    /\ checker = "missing"
    /\ CalledOnResults("find_critical_missing_data",
                       [critical_issues |-> find_critical_missing_data(results)])

NextReport ==
    \/ RunAnalysis
    \/ EnumerateTables
    \/ CheckSchemaMissingValues
    \/ CheckSchemaDuplicates
    \/ FindGapsInSchema
    \/ ReturnSchemaAnalysis
    \/ ReturnResults
    \/ GenerateMissingDataReport
    \/ GenerateDuplicateReport
    \/ GenerateGapReport
    \/ FindCriticalMissingData

SpecReport == InitReport /\ [][NextReport]_vars

(***************************************************************************)
(* Properties of the formatters and the finder (under SpecReport).          *)
(***************************************************************************)
\* the positions <<i, j>> of the table results at a severity of S, in the
\* schema results that are not error entries
TablesAt(S) ==
    {p \in UNION {{<<i, j>> : j \in DOMAIN results[i].table_results} :
                     i \in {k \in DOMAIN results : ~IsErrorResult(results[k])}} :
        Get(results[p[1]].table_results[p[2]], "severity", "none") \in S}

\* p comes before q in the input
Before(p, q) == p[1] < q[1] \/ (p[1] = q[1] /\ p[2] < q[2])

\* the place of position p among the positions of P, in input order
PlaceIn(P, p) == Cardinality({q \in P : Before(q, p)}) + 1

\* C24: find_critical_missing_data returns exactly one entry for each table
\* result at critical of the schema results that are not error entries, in
\* input order, none for any other table, and leaves its input unchanged.
C24_CriticalTablesInOrder ==
    call.entry = "find_critical_missing_data" =>
        /\ Len(report.critical_issues) = Cardinality(TablesAt({"critical"}))
        /\ \A p \in TablesAt({"critical"}) :
              LET table_result == results[p[1]].table_results[p[2]]
              IN  report.critical_issues[PlaceIn(TablesAt({"critical"}), p)] =
                      [schema |-> results[p[1]].schema,
                       table |-> table_result.table_name,
                       total_rows |-> table_result.total_rows,
                       missing_columns |-> table_result.columns_with_missing,
                       details |-> table_result.missing_details]
        /\ call.args.analysis_results = results

\* two critical tables found, next to a table at high and an error schema result
C24_Witness ==
    /\ call.entry = "find_critical_missing_data"
    /\ Len(report.critical_issues) = 2
    /\ report.critical_issues[1].table # report.critical_issues[2].table
    /\ \E i \in DOMAIN results : IsErrorResult(results[i])

\* one critical table found, the table at high beside it left out
C24_WitnessOtherSeverity ==
    /\ call.entry = "find_critical_missing_data"
    /\ Len(report.critical_issues) = 1
    /\ TablesAt({"high"}) # {}

AllSeverities == {"critical", "high", "medium", "low", "info", "error", "none"}

\* the lines of the last report that start with a literal of L
LinesOf(L) == SelectSeq(report.text, LAMBDA l : l.line \in L)

\* the lines of a table's findings under its "  Table: " line
DetailLiterals ==
    {"    Total rows: ", "    Columns with missing values: ", "    - ",
     "    Primary keys: ", "    Duplicate groups: ", "    Business keys: ",
     "    Duplicate rows: ", "    Date columns analyzed: ", "    Total gaps found: ",
     "      Expected interval: ", "      Date range: "}

\* a formatter has returned the text of the results
Formatted ==
    call.entry \in {"generate_missing_data_report", "generate_duplicate_report",
                    "generate_gap_report"}

\* a table result without an issue, as each report understands it
WithoutIssue(c, table_result) ==
    CASE c = "missing" ->
             /\ Get(table_result, "severity", "none") # "error"
             /\ table_result.columns_with_missing = 0
      [] c = "duplicates" ->
             /\ Get(table_result.primary_key_duplicates, "severity", "none") # "critical"
             /\ Get(table_result.general_duplicates, "total_duplicate_rows", 0) = 0
             /\ Get(table_result.business_key_duplicates, "total_duplicate_rows", 0) = 0
      [] c = "gaps" ->
             /\ Get(table_result, "severity", "none") # "error"
             /\ Get(table_result, "total_gaps", 0) = 0

\* the "  Table: " lines a table result with an issue is printed with
TableLinesFor(c, table_result) ==
    CASE c = "missing" ->
             IF Get(table_result, "severity", "none") = "error" THEN 0 ELSE 1
      [] c = "duplicates" ->
             (IF Get(table_result.primary_key_duplicates, "severity", "none") = "critical"
              THEN 1 ELSE 0)
             + (IF Get(table_result.general_duplicates, "total_duplicate_rows", 0) > 0
                THEN 1 ELSE 0)
             + (IF Get(table_result.business_key_duplicates, "total_duplicate_rows", 0) > 0
                THEN 1 ELSE 0)
      [] c = "gaps" ->
             IF Get(table_result, "severity", "none") = "error" THEN 0 ELSE 1

\* the positions of the table results of that name that have an issue
WithIssueNamed(name) ==
    {p \in TablesAt(AllSeverities) :
        /\ results[p[1]].table_results[p[2]].table_name = name
        /\ ~WithoutIssue(checker, results[p[1]].table_results[p[2]])}

TableNames ==
    {results[p[1]].table_results[p[2]].table_name : p \in TablesAt(AllSeverities)}

\* C22: each formatter emits per-table detail lines only for tables with at
\* least one issue: the "  Table: " lines that name a table are those of its
\* table results with an issue, and a text with no such table result has no
\* per-table line at all.
C22_DetailOnlyWithIssue ==
    Formatted =>
        /\ \A n \in TableNames :
              Len(SelectSeq(LinesOf({"  Table: "}), LAMBDA l : l.with.table_name = n))
                  = SumOver(WithIssueNamed(n),
                            [p \in WithIssueNamed(n) |->
                                TableLinesFor(checker, results[p[1]].table_results[p[2]])])
        /\ \A i \in DOMAIN LinesOf({"  Table: "}) :
              LinesOf({"  Table: "})[i].with.table_name \in TableNames
        /\ (\A n \in TableNames : WithIssueNamed(n) = {}) =>
              LinesOf(DetailLiterals \cup {"  Table: "}) = <<>>

\* a missing-value report with one table printed and another, without a
\* missing value, left out
C22_Witness ==
    /\ call.entry = "generate_missing_data_report"
    /\ Len(LinesOf({"  Table: "})) = 1
    /\ \E p \in TablesAt(AllSeverities) :
          /\ WithoutIssue("missing", results[p[1]].table_results[p[2]])
          /\ \A i \in DOMAIN report.text :
                report.text[i].line \in {"  Table: ", "  ERROR in table "} =>
                    report.text[i].with.table_name
                        # results[p[1]].table_results[p[2]].table_name

\* the same for a duplicate report
C22_WitnessDuplicates ==
    /\ call.entry = "generate_duplicate_report"
    /\ Len(LinesOf({"  Table: "})) >= 2
    /\ \E p \in TablesAt(AllSeverities) :
          /\ WithoutIssue("duplicates", results[p[1]].table_results[p[2]])
          /\ \A i \in DOMAIN LinesOf({"  Table: "}) :
                LinesOf({"  Table: "})[i].with.table_name
                    # results[p[1]].table_results[p[2]].table_name

\* a gap report of tables analysed without a gap: no per-table line
C22_WitnessGaps ==
    /\ call.entry = "generate_gap_report"
    /\ \E p \in TablesAt({"low"}) :
          WithoutIssue("gaps", results[p[1]].table_results[p[2]])
    /\ LinesOf(DetailLiterals \cup {"  Table: "}) = <<>>

\* the schema results that are not error entries
NotErrorEntries == {i \in DOMAIN results : ~IsErrorResult(results[i])}

\* the sum of one count over them
TotalOf(count) == SumOver(NotErrorEntries, [i \in NotErrorEntries |-> results[i][count]])

\* the value printed on the one line that starts with literal
Printed(literal) == LinesOf({literal})[1].with.value

\* C23: in the overall summary of each formatter every per-severity total is
\* the sum of that severity's count over the schema results that are not
\* error entries, an error entry yielding only its ERROR line, and the one
\* advisory message is that of the highest severity with a total above 0:
\* critical, else high, else medium, else the message of no significant issue.
C23_TotalsAndAdvice ==
    Formatted =>
        /\ \A literal \in {"Critical issues: ", "High issues: ", "Medium issues: ",
                           "Low issues: ", "advice"} : Len(LinesOf({literal})) = 1
        /\ Printed("Critical issues: ") = TotalOf("critical_issues")
        /\ Printed("High issues: ") = TotalOf("high_issues")
        /\ Printed("Medium issues: ") = TotalOf("medium_issues")
        /\ Printed("Low issues: ") = TotalOf("low_issues")
        /\ Len(LinesOf({"ERROR in schema "})) = Len(results) - Cardinality(NotErrorEntries)
        /\ Len(LinesOf({"SCHEMA: "})) = Cardinality(NotErrorEntries)
        /\ LinesOf({"advice"})[1].with.message =
              IF TotalOf("critical_issues") > 0 THEN AdviceMessages(checker).critical
              ELSE IF TotalOf("high_issues") > 0 THEN AdviceMessages(checker).high
              ELSE IF TotalOf("medium_issues") > 0 THEN AdviceMessages(checker).medium
              ELSE AdviceMessages(checker).none

\* totals above 0 at critical and at high, summed over two schema results
C23_Witness ==
    /\ Formatted
    /\ Cardinality(NotErrorEntries) = 2
    /\ Printed("Critical issues: ") > 0
    /\ Printed("High issues: ") > 0
    /\ Printed("Medium issues: ") > 0
    /\ LinesOf({"advice"})[1].with.message = AdviceMessages(checker).critical

\* an error entry beside a schema result whose highest count is at medium
C23_WitnessErrorEntry ==
    /\ Formatted
    /\ LinesOf({"ERROR in schema "}) # <<>>
    /\ Printed("Medium issues: ") > 0
    /\ LinesOf({"advice"})[1].with.message = AdviceMessages(checker).medium

\* nothing above low: the message of no significant issue
C23_WitnessNoIssue ==
    /\ Formatted
    /\ Printed("Low issues: ") > 0
    /\ LinesOf({"advice"})[1].with.message = AdviceMessages(checker).none

====
